---------------------------- MODULE Spec2Model ----------------------------
(***************************************************************************)
(* State-machine model of the phit core of triphase-computation:           *)
(* the header-only library libphit.h (src/src/phit_crypto.c, lines         *)
(* 347-692), the PRNG program phit_prng.c (src/src/phit_prng.c, lines      *)
(* 1-131) and the scheduler's router (src/src/phit_prng.c, lines 354-382). *)
(*                                                                         *)
(* Unsigned machine words are little-endian byte sequences (uint64_t: 8    *)
(* bytes, uint32_t: 4 bytes); all arithmetic is modulo 2^(8*Len).          *)
(***************************************************************************)
EXTENDS Integers, Sequences, FiniteSets, TLC

(***************************************************************************)
(* Machine-word arithmetic                                                 *)
(***************************************************************************)
Pow2(k) == <<1, 2, 4, 8, 16, 32, 64, 128, 256>>[k + 1]

Bit(a, i) == (a \div Pow2(i)) % 2

\* 4-bit truth tables of ^, & and |, built bit by bit
NibXor == [a \in 0..15 |-> [b \in 0..15 |->
             ((Bit(a,0) + Bit(b,0)) % 2)
           + ((Bit(a,1) + Bit(b,1)) % 2) * 2
           + ((Bit(a,2) + Bit(b,2)) % 2) * 4
           + ((Bit(a,3) + Bit(b,3)) % 2) * 8]]

NibAnd == [a \in 0..15 |-> [b \in 0..15 |->
             (Bit(a,0) * Bit(b,0))
           + (Bit(a,1) * Bit(b,1)) * 2
           + (Bit(a,2) * Bit(b,2)) * 4
           + (Bit(a,3) * Bit(b,3)) * 8]]

BXor(a, b) == NibXor[a \div 16][b \div 16] * 16 + NibXor[a % 16][b % 16]
BAnd(a, b) == NibAnd[a \div 16][b \div 16] * 16 + NibAnd[a % 16][b % 16]
BOr(a, b)  == a + b - BAnd(a, b)

\* the n-byte word whose i-th byte is f[i] (n = 8 or n = 4)
Word(f, n) ==
    IF n = 8 THEN <<f[1], f[2], f[3], f[4], f[5], f[6], f[7], f[8]>>
    ELSE <<f[1], f[2], f[3], f[4]>>

\* x ^ y, x & y, x | y on words of equal width
WXor(x, y) == Word([i \in 1..Len(x) |-> BXor(x[i], y[i])], Len(x))
WAnd(x, y) == Word([i \in 1..Len(x) |-> BAnd(x[i], y[i])], Len(x))
WOr(x, y)  == Word([i \in 1..Len(x) |-> BOr(x[i], y[i])], Len(x))

\* x >> k and x << k for 0 <= k < 8*Len(x)
WShr(x, k) ==
    LET n == Len(x)
        q == k \div 8
        r == k % 8
    IN Word([i \in 1..n |->
          (IF i + q <= n THEN x[i + q] \div Pow2(r) ELSE 0)
        + (IF i + q + 1 <= n THEN (x[i + q + 1] % Pow2(r)) * Pow2(8 - r) ELSE 0)], n)

WShl(x, k) ==
    LET n == Len(x)
        q == k \div 8
        r == k % 8
    IN Word([i \in 1..n |->
          (IF i - q >= 1 THEN (x[i - q] * Pow2(r)) % 256 ELSE 0)
        + (IF i - q - 1 >= 1 THEN x[i - q - 1] \div Pow2(8 - r) ELSE 0)], n)

\* x + y modulo 2^(8*Len(x))
RECURSIVE AddFrom(_, _, _, _)
AddFrom(x, y, i, carry) ==
    IF i > Len(x) THEN << >>
    ELSE LET s == x[i] + y[i] + carry
         IN <<s % 256>> \o AddFrom(x, y, i + 1, s \div 256)

WAdd(x, y) == AddFrom(x, y, 1, 0)

\* x * y modulo 2^(8*Len(x)): schoolbook columns, then carry propagation
RECURSIVE ColSum(_, _, _, _)
ColSum(x, y, k, i) ==
    IF i > k THEN 0 ELSE x[i] * y[k + 1 - i] + ColSum(x, y, k, i + 1)

RECURSIVE MulFrom(_, _, _, _)
MulFrom(x, y, k, carry) ==
    IF k > Len(x) THEN << >>
    ELSE LET s == ColSum(x, y, k, 1) + carry
         IN <<s % 256>> \o MulFrom(x, y, k + 1, s \div 256)

WMul(x, y) == MulFrom(x, y, 1, 0)

\* (uint64_t)n and (uint32_t)n of a small non-negative integer n
U64(n) == <<n % 256, (n \div 256) % 256, (n \div 65536) % 256,
            (n \div 16777216) % 256, 0, 0, 0, 0>>
U32(n) == <<n % 256, (n \div 256) % 256, (n \div 65536) % 256,
            (n \div 16777216) % 256>>

\* (uint32_t)x of a uint64_t and (uint64_t)x of a uint32_t
Trunc32(x) == SubSeq(x, 1, 4)
Ext64(x)   == x \o <<0, 0, 0, 0>>

Zero64 == <<0, 0, 0, 0, 0, 0, 0, 0>>
Zero32 == <<0, 0, 0, 0>>

\* unsigned comparison x < y, most significant byte first
RECURSIVE LtFrom(_, _, _)
LtFrom(x, y, i) ==
    IF i < 1 THEN FALSE
    ELSE IF x[i] # y[i] THEN x[i] < y[i]
    ELSE LtFrom(x, y, i - 1)

WLt(x, y) == LtFrom(x, y, Len(x))

\* x % m of a word x for a small modulus m > 0 (Horner, most significant first)
RECURSIVE ModFrom(_, _, _, _)
ModFrom(x, m, i, acc) ==
    IF i < 1 THEN acc ELSE ModFrom(x, m, i - 1, (acc * 256 + x[i]) % m)

WMod(x, m) == ModFrom(x, m, Len(x), 0)

(***************************************************************************)
(* Constants of the source                                                 *)
(***************************************************************************)
GOLDEN  == <<21, 124, 74, 127, 185, 121, 55, 158>>    \* 0x9E3779B97F4A7C15
MIX_C1  == <<185, 229, 228, 28, 109, 71, 88, 191>>    \* 0xBF58476D1CE4E5B9
MIX_C2  == <<235, 17, 49, 19, 187, 73, 208, 148>>     \* 0x94D049BB133111EB
LCG_MUL == <<45, 127, 149, 76, 45, 244, 81, 88>>      \* 6364136223846793005
LCG_ADD == <<79, 129, 103, 247, 126, 123, 5, 20>>     \* 1442695040888963407
HASH_C1 == <<177, 121, 55, 158>>                      \* 2654435761u
HASH_C2 == <<107, 202, 235, 133>>                     \* 0x85ebca6bu
CAFEBABE == <<190, 186, 254, 202, 0, 0, 0, 0>>        \* 0xCAFEBABE
DEADBEEF == <<239, 190, 173, 222, 0, 0, 0, 0>>        \* 0xDEADBEEF

PHIT_WORKLOAD_ITERS   == 20
PHIT_POOL_LANES       == 4
PHIT_PRNG_SEED_ROUNDS == 16

(***************************************************************************)
(* Hash functions                                                          *)
(***************************************************************************)
\* fault variant of phit_hash32: the first multiplier is even (2654435760)
HashWithEvenMultiplier(key) ==
    LET k1 == WMul(key, <<176, 121, 55, 158>>)
        k2 == WXor(k1, WShr(k1, 16))
        k3 == WMul(k2, HASH_C2)
    IN WXor(k3, WShr(k3, 13))

phit_hash32(key) ==
    LET k1 == WMul(key, HASH_C1)
        k2 == WXor(k1, WShr(k1, 16))
        k3 == WMul(k2, HASH_C2)
    IN WXor(k3, WShr(k3, 13))

phit_hash64(key) ==
    LET k1 == WMul(WXor(key, WShr(key, 30)), MIX_C1)
        k2 == WMul(WXor(k1, WShr(k1, 27)), MIX_C2)
    IN WXor(k2, WShr(k2, 31))

phit__rotl64(x, k) == WOr(WShl(x, k), WShr(x, 64 - k))

(***************************************************************************)
(* Workloads: the value left in the volatile scratch variable x            *)
(***************************************************************************)
\* one iteration of the harvest/phit_workload loop: x = x*MUL + ADD; x ^= x >> 17
HarvestIter[x \in Seq(0..255)] ==
    LET y == WAdd(WMul(x, LCG_MUL), LCG_ADD)
    IN WXor(y, WShr(y, 17))

\* x after `iters` iterations starting from 0xCAFEBABE
RECURSIVE HarvestLoop(_)
HarvestLoop(iters) ==
    IF iters = 0 THEN CAFEBABE ELSE HarvestIter[HarvestLoop(iters - 1)]

HarvestWorkload == HarvestLoop(PHIT_WORKLOAD_ITERS)

\* one iteration of the sample loop: x = x*MUL + ADD
SampleIter[x \in Seq(0..255)] == WAdd(WMul(x, LCG_MUL), LCG_ADD)

\* x after `iters` iterations of the sample loop from seed
RECURSIVE SampleLoop(_, _)
SampleLoop(seed, iters) ==
    IF iters = 0 THEN seed ELSE SampleIter[SampleLoop(seed, iters - 1)]

\* workload result of read i of a compound sample; the seed is
\* 0xDEADBEEF ^ ((uint64_t)i * 0x9E3779B97F4A7C15)
SampleWorkload(i) == SampleLoop(WXor(DEADBEEF, WMul(U64(i), GOLDEN)), 10)

(***************************************************************************)
(* Entropy pool (library)                                                  *)
(* A pool is [pool |-> <<lane0, lane1, lane2, lane3>>, mix_counter |-> w,  *)
(* bits_collected |-> n]; lane k of the source is pool[k + 1].             *)
(***************************************************************************)
ZeroPool == [pool |-> <<Zero64, Zero64, Zero64, Zero64>>,
             mix_counter |-> Zero64, bits_collected |-> 0]

phit_pool_init(p) == ZeroPool

\* fault variant of phit_pool_feed: the slot is taken from one bit of the
\* counter, so only lanes 0 and 1 are direct targets
FeedIntoTwoLanes(p, sample) ==
    LET mc   == WAdd(p.mix_counter, U64(1))
        z0   == WAdd(sample, WMul(mc, GOLDEN))
        z1   == WMul(WXor(z0, WShr(z0, 30)), MIX_C1)
        z2   == WMul(WXor(z1, WShr(z1, 27)), MIX_C2)
        z    == WXor(z2, WShr(z2, 31))
        slot == mc[1] % 2
        nxt  == (slot + 1) % 4
        l1   == [p.pool EXCEPT ![slot + 1] = WXor(@, z)]
        l2   == [l1 EXCEPT ![nxt + 1] = WXor(@, WOr(WShl(l1[slot + 1], 17),
                                                    WShr(l1[slot + 1], 47)))]
    IN [pool |-> l2, mix_counter |-> mc, bits_collected |-> p.bits_collected + 2]

\* fault variant of phit_pool_feed: mix_counter is read but not incremented
FeedWithoutIncrement(p, sample) ==
    LET mc   == p.mix_counter
        z0   == WAdd(sample, WMul(mc, GOLDEN))
        z1   == WMul(WXor(z0, WShr(z0, 30)), MIX_C1)
        z2   == WMul(WXor(z1, WShr(z1, 27)), MIX_C2)
        z    == WXor(z2, WShr(z2, 31))
        slot == mc[1] % 4
        nxt  == (slot + 1) % 4
        l1   == [p.pool EXCEPT ![slot + 1] = WXor(@, z)]
        l2   == [l1 EXCEPT ![nxt + 1] = WXor(@, WOr(WShl(l1[slot + 1], 17),
                                                    WShr(l1[slot + 1], 47)))]
    IN [pool |-> l2, mix_counter |-> mc, bits_collected |-> p.bits_collected + 2]

\* fault variant of phit_pool_feed: the next lane receives the rotation of the
\* slot lane as it was before z was mixed in
FeedRotatesOldLane(p, sample) ==
    LET mc   == WAdd(p.mix_counter, U64(1))
        z0   == WAdd(sample, WMul(mc, GOLDEN))
        z1   == WMul(WXor(z0, WShr(z0, 30)), MIX_C1)
        z2   == WMul(WXor(z1, WShr(z1, 27)), MIX_C2)
        z    == WXor(z2, WShr(z2, 31))
        slot == mc[1] % 4
        nxt  == (slot + 1) % 4
        old  == p.pool[slot + 1]
        l1   == [p.pool EXCEPT ![slot + 1] = WXor(@, z)]
        l2   == [l1 EXCEPT ![nxt + 1] = WXor(@, WOr(WShl(old, 17), WShr(old, 47)))]
    IN [pool |-> l2, mix_counter |-> mc, bits_collected |-> p.bits_collected + 2]

phit_pool_feed(p, sample) ==
    LET mc   == WAdd(p.mix_counter, U64(1))
        z0   == WAdd(sample, WMul(mc, GOLDEN))
        z1   == WMul(WXor(z0, WShr(z0, 30)), MIX_C1)
        z2   == WMul(WXor(z1, WShr(z1, 27)), MIX_C2)
        z    == WXor(z2, WShr(z2, 31))
        slot == mc[1] % 4
        nxt  == (slot + 1) % 4
        l1   == [p.pool EXCEPT ![slot + 1] = WXor(@, z)]
        l2   == [l1 EXCEPT ![nxt + 1] = WXor(@, phit__rotl64(l1[slot + 1], 17))]
    IN [pool |-> l2, mix_counter |-> mc, bits_collected |-> p.bits_collected + 2]

\* fault variant of phit_pool_harvest: the two feeds are made in the other
\* order
HarvestFeedsSwapped(p, t) ==
    LET x == HarvestWorkload
    IN phit_pool_feed(phit_pool_feed(p, WXor(x, t)), t)

\* a harvest that feeds the raw timer value only
HarvestFeedsOnce(p, t) == phit_pool_feed(p, t)

\* t is the value phit_now_ns() returned
phit_pool_harvest(p, t) ==
    LET x == HarvestWorkload
    IN phit_pool_feed(phit_pool_feed(p, t), WXor(x, t))

\* fault variant of the output: lane 3 is left out of the fold
OutputWithoutLastLane(p) ==
    WXor(WXor(p.pool[1], WOr(WShl(p.pool[2], 13), WShr(p.pool[2], 51))),
         WOr(WShl(p.pool[3], 29), WShr(p.pool[3], 35)))

\* the output word computed from the lanes (lines 590-593)
ExtractOutput(p) ==
    WXor(WXor(WXor(p.pool[1], phit__rotl64(p.pool[2], 13)),
              phit__rotl64(p.pool[3], 29)),
         phit__rotl64(p.pool[4], 43))

\* fault variant of the mutation step: lane 1 is left as it was
MutateLaneZeroOnly(p, out) ==
    [p EXCEPT !.pool[1] = WXor(@, WOr(WShl(out, 7), WShr(out, 57)))]

\* the forward-secrecy mutation (lines 596-597)
ExtractMutate(p, out) ==
    [p EXCEPT !.pool[1] = WXor(@, phit__rotl64(out, 7)),
              !.pool[2] = WXor(@, phit__rotl64(out, 23))]

(***************************************************************************)
(* Sampling and routing (library)                                          *)
(***************************************************************************)
\* fault variant of the key: the timer is not shifted before the XOR
KeyOfUnshiftedTimer(t, x) ==
    WOr(Trunc32(WAnd(t, U64(3))),
        WShl(WXor(Trunc32(t), Trunc32(x)), 2))

\* (uint32_t)((t & 0x3) | (((uint32_t)(t >> 2) ^ (uint32_t)x) << 2))
SampleKey(t, x) ==
    WOr(Trunc32(WAnd(t, U64(3))),
        WShl(WXor(Trunc32(WShr(t, 2)), Trunc32(x)), 2))

\* t is the value phit_now_ns() returned
phit_sample(t) == phit_hash32(SampleKey(t, SampleWorkload(0)))

\* fault variant of the loop of phit_sample_compound: the workload result
\* varies with the time read
FoldWithTimedWorkload(key, i, t) ==
    LET x      == SampleLoop(WXor(WXor(DEADBEEF, WMul(U64(i), GOLDEN)), t), 10)
        sample == SampleKey(t, x)
        k1     == WXor(key, phit_hash32(WAdd(sample, U32(i))))
    IN WOr(WShl(k1, 7), WShr(k1, 25))

\* one iteration of the loop of phit_sample_compound: read i with timer value t
CompoundFold(key, i, t) ==
    LET sample == SampleKey(t, SampleWorkload(i))
        k1     == WXor(key, phit_hash32(WAdd(sample, U32(i))))
    IN WOr(WShl(k1, 7), WShr(k1, 25))

\* (int)v of a uint32_t v (two's complement)
S32(v) ==
    LET low == v[1] + 256 * v[2] + 65536 * v[3] + 16777216 * (v[4] % 128)
    IN IF v[4] >= 128 THEN (low - 1073741824) - 1073741824 ELSE low

(***************************************************************************)
(* The PRNG program phit_prng.c: its own copies of the pool functions      *)
(***************************************************************************)
rotl64(x, k) == WOr(WShl(x, k), WShr(x, 64 - k))

\* fault variant of pool_feed: the cross-mix rotates by 13
PoolFeedRotatesThirteen(p, phit_sample_) ==
    LET mc   == WAdd(p.mix_counter, U64(1))
        z0   == WAdd(phit_sample_, WMul(mc, GOLDEN))
        z1   == WMul(WXor(z0, WShr(z0, 30)), MIX_C1)
        z2   == WMul(WXor(z1, WShr(z1, 27)), MIX_C2)
        z    == WXor(z2, WShr(z2, 31))
        slot == mc[1] % 4
        nxt  == (slot + 1) % 4
        l1   == [p.pool EXCEPT ![slot + 1] = WXor(@, z)]
        l2   == [l1 EXCEPT ![nxt + 1] = WXor(@, rotl64(l1[slot + 1], 13))]
    IN [pool |-> l2, mix_counter |-> mc, bits_collected |-> p.bits_collected + 2]

pool_feed(p, phit_sample_) ==
    LET mc   == WAdd(p.mix_counter, U64(1))
        z0   == WAdd(phit_sample_, WMul(mc, GOLDEN))
        z1   == WMul(WXor(z0, WShr(z0, 30)), MIX_C1)
        z2   == WMul(WXor(z1, WShr(z1, 27)), MIX_C2)
        z    == WXor(z2, WShr(z2, 31))
        slot == mc[1] % 4
        nxt  == (slot + 1) % 4
        l1   == [p.pool EXCEPT ![slot + 1] = WXor(@, z)]
        l2   == [l1 EXCEPT ![nxt + 1] = WXor(@, rotl64(l1[slot + 1], 17))]
    IN [pool |-> l2, mix_counter |-> mc, bits_collected |-> p.bits_collected + 2]

pool_harvest(p, t) ==
    LET x == HarvestLoop(20)
    IN pool_feed(pool_feed(p, t), WXor(x, t))

\* lines 93-96 and 99-100 of pool_extract
PoolExtractOutput(p) ==
    WXor(WXor(WXor(p.pool[1], rotl64(p.pool[2], 13)),
              rotl64(p.pool[3], 29)),
         rotl64(p.pool[4], 43))

PoolExtractMutate(p, out) ==
    [p EXCEPT !.pool[1] = WXor(@, rotl64(out, 7)),
              !.pool[2] = WXor(@, rotl64(out, 23))]

(***************************************************************************)
(* The scheduler's router (phit_scheduler.c)                               *)
(***************************************************************************)
phit_hash(key) ==
    LET k1 == WMul(key, HASH_C1)
        k2 == WXor(k1, WShr(k1, 16))
        k3 == WMul(k2, HASH_C2)
    IN WXor(k3, WShr(k3, 13))

\* the hashed key of the scheduler's phit_route (lines 372-380)
SchedRouteKey(t) == phit_hash(SampleKey(t, SampleLoop(DEADBEEF, 10)))

(***************************************************************************)
(* Bounds of the model and input sets                                      *)
(***************************************************************************)
MaxCalls == 3          \* API calls made by the caller in one run
MaxTicks == 1          \* most ticks the free-running timer advances per read
MaxFill  == 9          \* largest length passed to fill
TICK     == 42         \* nanoseconds per timer tick (phit__quantize)
GUARD    == 8          \* guard bytes the caller keeps behind the fill buffer

RouteArgs    == {0, 1, 3, 8}
RangeArgs    == {0, 1, 7}
CompoundArgs == {0, 1, 2, 3}
FeedSamples  == {U64(1), U64(2), U64(3)}

\* a recorded sequence of timer readings (strictly increasing nanoseconds)
SelftestTape ==
    <<1000, 2000, 3000, 4000, 5000, 6000, 7000, 8000,
      48573, 67192, 100210, 141550, 171849, 200616, 240683, 263816,
      309376, 329306, 373641, 407248, 428210, 459882, 495148, 524545>>

\* the bytes of an object no initializer has run on
Junk64 == <<170, 170, 170, 170, 170, 170, 170, 170>>
RawRng == [pool |-> [pool |-> <<Junk64, Junk64, Junk64, Junk64>>,
                     mix_counter |-> Junk64, bits_collected |-> 0],
           generated |-> 0]

(***************************************************************************)
(* State                                                                   *)
(***************************************************************************)
VARIABLES
    prog,     \* the translation unit that runs: "libphit", "phit_prng", "phit_scheduler"
    rate,     \* ticks the free-running timer advances between two reads
    now,      \* the last value the timer returned (ns)
    tape,     \* timer readings still to be replayed; << >>: free-running timer
    rng,      \* the caller's phit_prng_t (a bare pool uses only rng.pool)
    mode,     \* "raw": not initialized, "pool": phit_pool_init ran, "prng": prng_init ran
    sink,     \* the file-scope volatile sink (phit__sink / sink)
    call,     \* the call in progress
    ret,      \* what the last completed call returned
    buf,      \* the buffer handed to fill, -1 where no byte was written
    ev,       \* what the last step did
    pre,      \* the lanes just before the mutation of the last extraction
    outs,     \* outputs of the extractions since the last init
    mcs,      \* mix_counter seen by each of these extractions
    feeds,    \* feeds performed since the last init
    ncalls,   \* calls made so far
    reads,    \* timer values read by the call in progress or last completed
    entry,    \* the caller's phit_prng_t when that call was entered
    thr,      \* concurrent callers: each thread's instance, locals and history
    mem       \* what concurrent callers share: the sink, the timer, the access log

seqvars == <<prog, rate, now, tape, rng, mode, sink, call, ret, buf, ev, pre,
             outs, mcs, feeds, ncalls, reads, entry>>

mtvars == <<thr, mem>>

vars == <<seqvars, mtvars>>

Idle == [op |-> "idle", arg |-> 0, left |-> 0, len |-> 0, off |-> 0,
         i |-> 0, key |-> Zero32, base |-> 0]

\* a return record: the call, its argument, the kind of outcome ("void", "u64",
\* "u32", "int", "double": a value came back; "sigfpe": the process was killed by
\* the division trap), the value, whether the call executed a modulo by zero,
\* and how many extractions the call made
Ret(op, arg, kind, val, n64) ==
    [op |-> op, arg |-> arg, kind |-> kind, val |-> val, ub |-> FALSE, n64 |-> n64]

NoRet == Ret("none", 0, "none", 0, 0)

\* the threads of the concurrent runs
Threads == {1, 2}

\* a thread's instance as the memset of phit_prng_init leaves it, its position
\* in the call it is making, its local x, and its history: the calls it made,
\* the timer readings it got, the values returned to it
ThrInit ==
    [t \in Threads |->
        [inst  |-> [pool |-> ZeroPool, generated |-> 0],
         pc    |-> [op |-> "idle", arg |-> 0, left |-> 0, i |-> 0, key |-> Zero32,
                    phase |-> "none"],
         x     |-> Zero64,
         ops   |-> << >>,
         reads |-> << >>,
         rets  |-> << >>]]

MemInit == [sink |-> Zero64, now |-> 0, acc |-> {}]

Init ==
    /\ prog \in {"libphit", "phit_prng", "phit_scheduler"}
    /\ now = 0
    /\ \/ tape = << >> /\ rate \in 0..MaxTicks
       \/ tape = SelftestTape /\ rate = 1
    /\ rng = RawRng
    /\ mode = "raw"
    /\ sink = Zero64
    /\ call = Idle
    /\ ret = NoRet
    /\ buf = << >>
    /\ ev = "start"
    /\ pre = << >>
    /\ outs = << >>
    /\ mcs = << >>
    /\ feeds = 0
    /\ ncalls = 0
    /\ reads = << >>
    /\ entry = rng
    /\ thr = ThrInit
    /\ mem = MemInit

(***************************************************************************)
(* Timer Source: phit_now_ns() / now_ns()                                  *)
(***************************************************************************)
\* the values the next timer read may return: monotonic, non-decreasing
TimerReadings ==
    IF tape # << >> THEN {Head(tape)}
    ELSE {now + rate * TICK}

\* the timer returned t
TimerRead(t) ==
    /\ now' = t
    /\ tape' = IF tape # << >> THEN Tail(tape) ELSE tape

(***************************************************************************)
(* Dispatch on the translation unit                                        *)
(***************************************************************************)
Harvest(p, t) ==
    IF prog = "libphit" THEN phit_pool_harvest(p, t) ELSE pool_harvest(p, t)

Output(p) ==
    IF prog = "libphit" THEN ExtractOutput(p) ELSE PoolExtractOutput(p)

Mutate(p, out) ==
    IF prog = "libphit" THEN ExtractMutate(p, out) ELSE PoolExtractMutate(p, out)

(***************************************************************************)
(* Outcomes of the modulo operations                                       *)
(***************************************************************************)
\* v % m is undefined for m = 0: the build either traps (x86 div: SIGFPE) or
\* yields the dividend (AArch64 udiv/msub); `garbage` is that dividend as the
\* function's return type
ModZero(op, arg, kind, garbage, n64) ==
    { [Ret(op, arg, "sigfpe", 0, n64) EXCEPT !.ub = TRUE],
      [Ret(op, arg, kind, garbage, n64) EXCEPT !.ub = TRUE] }

\* fault variant of phit_route: the modulus is off by one
RouteModuloOffByOne(v, k) ==
    {Ret("route", k, "int", S32(U32(WMod(v, k + 1))), 0)}

\* phit_route: (int)(phit_sample_compound(2) % (uint32_t)num_destinations)
RouteReturn(v, k) ==
    IF k = 0 THEN ModZero("route", k, "int", S32(v), 0)
    ELSE {Ret("route", k, "int", S32(U32(WMod(v, k))), 0)}

\* scheduler phit_route: return key % num_workers
SchedRouteReturn(key, k) ==
    IF k = 0 THEN ModZero("route", k, "int", S32(key), 0)
    ELSE {Ret("route", k, "int", S32(U32(WMod(key, k))), 0)}

\* fault variant of phit_prng_range: the low word alone is reduced
RangeOfLowWord(out, max) ==
    IF max = 0 THEN ModZero("range", max, "u32", Trunc32(out), 1)
    ELSE {Ret("range", max, "u32", U32(WMod(Ext64(Trunc32(out)), max)), 1)}

\* phit_prng_range after its guard: (uint32_t)(phit_prng_u64(rng) % max)
PhitRangeReturn(out, max) ==
    IF max = 0 THEN ModZero("range", max, "u32", Trunc32(out), 1)
    ELSE {Ret("range", max, "u32", U32(WMod(out, max)), 1)}

\* prng_range: (uint32_t)(prng_u64(rng) % max)
PrngRangeReturn(out, max) ==
    IF max = 0 THEN ModZero("range", max, "u32", Trunc32(out), 1)
    ELSE {Ret("range", max, "u32", U32(WMod(out, max)), 1)}

\* the highest set bit of a 64-bit word, -1 for zero
RECURSIVE TopBitFrom(_, _)
TopBitFrom(v, i) ==
    IF i < 0 THEN -1
    ELSE IF Bit(v[(i \div 8) + 1], i % 8) = 1 THEN i
    ELSE TopBitFrom(v, i - 1)

\* (double)v of a uint64_t v below 2^63, as the integer the double denotes:
\* v rounded to 53 significant bits, ties to even
ToDouble(v) ==
    LET e == TopBitFrom(v, 63)
        d == e - 52
        q == WShr(v, d)
        rem == WXor(v, WShl(q, d))
        half == WShl(U64(1), d - 1)
        up == WLt(half, rem) \/ (rem = half /\ Bit(q[1], 0) = 1)
    IN IF e < 53 THEN v
       ELSE WShl(IF up THEN WAdd(q, U64(1)) ELSE q, d)

\* fault variant of phit_prng_double: one bit too few is shifted out
DoubleShiftsTen(out) == ToDouble(WShr(out, 10))

\* phit_prng_double: (double)(phit_prng_u64(rng) >> 11) / (double)(1ULL << 53),
\* as the numerator of the result over 2^53 (the division by a power of two
\* is exact)
DoubleReturn(out) == ToDouble(WShr(out, 11))

\* what an accessor returns once its extraction produced `out`
AccessorReturn(op, arg, out) ==
    CASE op = "extract" -> {Ret(op, arg, "u64", out, 1)}
      [] op = "u64"     -> {Ret(op, arg, "u64", out, 1)}
      [] op = "u32"     -> {Ret(op, arg, "u32", Trunc32(WShr(out, 32)), 1)}
      [] op = "double"  -> {Ret(op, arg, "double", DoubleReturn(out), 1)}
      [] op = "range"   -> IF prog = "libphit" THEN PhitRangeReturn(out, arg)
                           ELSE PrngRangeReturn(out, arg)

(***************************************************************************)
(* Calls of the pool API (library)                                         *)
(***************************************************************************)
CanCall == call.op = "idle" /\ ncalls < MaxCalls

\* a call is entered: nothing read yet, the instance as the caller passes it
Begin == reads' = << >> /\ entry' = rng

\* a call is entered and reads the timer once
BeginRead(t) == reads' = <<t>> /\ entry' = rng

CallPoolInit ==
    /\ CanCall /\ prog = "libphit"
    /\ rng' = [rng EXCEPT !.pool = phit_pool_init(rng.pool)]
    /\ mode' = "pool"
    /\ ret' = Ret("pool_init", 0, "void", 0, 0)
    /\ ev' = "init"
    /\ Begin
    /\ outs' = << >> /\ mcs' = << >> /\ feeds' = 0
    /\ pre' = << >> /\ buf' = << >>
    /\ ncalls' = ncalls + 1
    /\ UNCHANGED <<mtvars, prog, rate, now, tape, sink, call>>

CallFeed ==
    /\ CanCall /\ prog = "libphit" /\ mode = "pool"
    /\ \E sample \in FeedSamples :
         /\ rng' = [rng EXCEPT !.pool = phit_pool_feed(rng.pool, sample)]
         /\ ret' = Ret("feed", sample, "void", 0, 0)
    /\ ev' = "feed"
    /\ Begin
    /\ feeds' = feeds + 1
    /\ pre' = << >> /\ buf' = << >>
    /\ ncalls' = ncalls + 1
    /\ UNCHANGED <<mtvars, prog, rate, now, tape, mode, sink, call, outs, mcs>>

CallHarvest ==
    /\ CanCall /\ prog = "libphit" /\ mode = "pool"
    /\ \E t \in TimerReadings :
         /\ TimerRead(t)
         /\ BeginRead(t)
         /\ rng' = [rng EXCEPT !.pool = phit_pool_harvest(rng.pool, U64(t))]
    /\ sink' = HarvestWorkload
    /\ ret' = Ret("harvest", 0, "void", 0, 0)
    /\ ev' = "harvest"
    /\ feeds' = feeds + 2
    /\ pre' = << >> /\ buf' = << >>
    /\ ncalls' = ncalls + 1
    /\ UNCHANGED <<mtvars, prog, rate, mode, call, outs, mcs>>

\* entry of a call that only sets up work for the following steps
Enter(c) ==
    /\ call' = c
    /\ ret' = NoRet
    /\ ev' = "call"
    /\ Begin
    /\ pre' = << >>
    /\ ncalls' = ncalls + 1

CallExtract ==
    /\ CanCall /\ prog = "libphit" /\ mode = "pool"
    /\ Enter([Idle EXCEPT !.op = "extract", !.left = PHIT_POOL_LANES])
    /\ buf' = << >>
    /\ UNCHANGED <<mtvars, prog, rate, now, tape, rng, mode, sink, outs, mcs, feeds>>

(***************************************************************************)
(* Calls of the PRNG facade (library and phit_prng.c)                      *)
(***************************************************************************)
HasPrng == prog \in {"libphit", "phit_prng"}

\* memset, then the seed rounds follow as harvest steps
CallPrngInit ==
    /\ CanCall /\ HasPrng
    /\ rng' = [pool |-> ZeroPool, generated |-> 0]
    /\ mode' = "prng"
    /\ Enter([Idle EXCEPT !.op = "prng_init", !.left = PHIT_PRNG_SEED_ROUNDS])
    /\ outs' = << >> /\ mcs' = << >> /\ feeds' = 0
    /\ buf' = << >>
    /\ UNCHANGED <<mtvars, prog, rate, now, tape, sink>>

\* fault variant of the entry of prng_u64: generated is not incremented
EnterWithoutCount(op, arg) ==
    /\ rng' = rng
    /\ Enter([Idle EXCEPT !.op = op, !.arg = arg, !.left = PHIT_POOL_LANES])
    /\ buf' = << >>
    /\ UNCHANGED <<mtvars, prog, rate, now, tape, mode, sink, outs, mcs, feeds>>

\* prng_u64 entered: generated++, then pool_extract's harvest loop
EnterU64(op, arg) ==
    /\ rng' = [rng EXCEPT !.generated = @ + 1]
    /\ Enter([Idle EXCEPT !.op = op, !.arg = arg, !.left = PHIT_POOL_LANES])
    /\ buf' = << >>
    /\ UNCHANGED <<mtvars, prog, rate, now, tape, mode, sink, outs, mcs, feeds>>

CallU64 == CanCall /\ HasPrng /\ mode = "prng" /\ EnterU64("u64", 0)

CallU32 == CanCall /\ prog = "libphit" /\ mode = "prng" /\ EnterU64("u32", 0)

CallDouble == CanCall /\ HasPrng /\ mode = "prng" /\ EnterU64("double", 0)

\* fault variant of phit_prng_range: the guard on max is missing
CallRangeUnguarded ==
    /\ CanCall /\ HasPrng /\ mode = "prng"
    /\ \E max \in RangeArgs : EnterU64("range", max)

\* phit_prng_range: if (max == 0) return 0;  prng_range: no guard
CallRange ==
    /\ CanCall /\ HasPrng /\ mode = "prng"
    /\ \E max \in RangeArgs :
         IF prog = "libphit" /\ max = 0
         THEN /\ ret' = Ret("range", max, "u32", U32(0), 0)
              /\ ev' = "return"
              /\ Begin
              /\ pre' = << >> /\ buf' = << >>
              /\ ncalls' = ncalls + 1
              /\ UNCHANGED <<mtvars, prog, rate, now, tape, rng, mode, sink, call, outs, mcs, feeds>>
         ELSE EnterU64("range", max)

CallFill ==
    /\ CanCall /\ prog = "libphit" /\ mode = "prng"
    /\ \E len \in 0..MaxFill :
         /\ buf' = [i \in 1..(len + GUARD) |-> -1]
         /\ IF len > 0
            THEN /\ rng' = [rng EXCEPT !.generated = @ + 1]
                 /\ Enter([Idle EXCEPT !.op = "fill", !.arg = len, !.len = len,
                                       !.left = PHIT_POOL_LANES])
            ELSE /\ ret' = Ret("fill", len, "void", 0, 0)
                 /\ ev' = "return"
                 /\ Begin
                 /\ pre' = << >>
                 /\ ncalls' = ncalls + 1
                 /\ UNCHANGED <<rng, call>>
    /\ UNCHANGED <<mtvars, prog, rate, now, tape, mode, sink, outs, mcs, feeds>>

\* fault variant of the copy: all 8 bytes of v are copied whatever n is
MemcpyWholeWord(b, off, v, n) ==
    [i \in DOMAIN b |-> IF off < i /\ i <= off + 8 THEN v[i - off] ELSE b[i]]

\* memcpy(p, &v, n) at offset off: the first n bytes of v as stored in memory
Memcpy(b, off, v, n) ==
    [i \in DOMAIN b |-> IF off < i /\ i <= off + n THEN v[i - off] ELSE b[i]]

\* one pass of a harvest loop: pool_harvest with one timer read; the last pass
\* of an extraction also computes the output, mutates the lanes and returns
StepHarvest ==
    /\ call.op \in {"prng_init", "extract", "u64", "u32", "double", "range", "fill"}
    /\ call.left > 0
    /\ \E t \in TimerReadings :
         LET p1  == Harvest(rng.pool, U64(t))
             out == Output(p1)
             p2  == Mutate(p1, out)
         IN /\ TimerRead(t)
            /\ reads' = Append(reads, t)
            /\ IF call.left > 1
               THEN /\ rng' = [rng EXCEPT !.pool = p1]
                    /\ call' = [call EXCEPT !.left = @ - 1]
                    /\ ev' = "harvest"
                    /\ pre' = << >>
                    /\ UNCHANGED <<ret, buf, outs, mcs>>
               ELSE IF call.op = "prng_init"
               THEN /\ rng' = [rng EXCEPT !.pool = p1]
                    /\ call' = Idle
                    /\ ret' = Ret("prng_init", 0, "void", 0, 0)
                    /\ ev' = "return"
                    /\ pre' = << >>
                    /\ UNCHANGED <<buf, outs, mcs>>
               ELSE /\ outs' = Append(outs, out)
                    /\ mcs' = Append(mcs, p1.mix_counter)
                    /\ pre' = p1.pool
                    /\ ev' = "extract"
                    /\ IF call.op = "fill"
                       THEN LET n == IF call.len >= 8 THEN 8 ELSE call.len
                            IN /\ buf' = Memcpy(buf, call.off, out, n)
                               /\ IF call.len - n > 0
                                  THEN /\ rng' = [pool |-> p2,
                                                  generated |-> rng.generated + 1]
                                       /\ call' = [call EXCEPT
                                                     !.left = PHIT_POOL_LANES,
                                                     !.len = @ - n,
                                                     !.off = @ + n,
                                                     !.base = @ + 1]
                                       /\ ret' = ret
                                  ELSE /\ rng' = [rng EXCEPT !.pool = p2]
                                       /\ call' = Idle
                                       /\ ret' = Ret("fill", call.arg, "void", 0,
                                                     call.base + 1)
                       ELSE /\ rng' = [rng EXCEPT !.pool = p2]
                            /\ call' = Idle
                            /\ ret' \in AccessorReturn(call.op, call.arg, out)
                            /\ buf' = buf
    /\ sink' = HarvestWorkload
    /\ feeds' = feeds + 2
    /\ UNCHANGED <<mtvars, prog, rate, mode, ncalls, entry>>

(***************************************************************************)
(* Sampling and routing calls (library)                                    *)
(***************************************************************************)
CanSample == CanCall /\ prog = "libphit"

CallSample ==
    /\ CanSample
    /\ \E t \in TimerReadings :
         /\ TimerRead(t)
         /\ BeginRead(t)
         /\ ret' = Ret("sample", 0, "u32", phit_sample(U64(t)), 0)
    /\ sink' = SampleWorkload(0)
    /\ ev' = "return"
    /\ pre' = << >> /\ buf' = << >>
    /\ ncalls' = ncalls + 1
    /\ UNCHANGED <<mtvars, prog, rate, rng, mode, call, outs, mcs, feeds>>

\* phit_sample_compound(num_reads): the loop body runs only for i < num_reads
CallCompound ==
    /\ CanSample
    /\ \E n \in CompoundArgs :
         IF n > 0
         THEN Enter([Idle EXCEPT !.op = "compound", !.arg = n, !.left = n])
         ELSE /\ ret' = Ret("compound", n, "u32", phit_hash32(Zero32), 0)
              /\ ev' = "return"
              /\ Begin
              /\ pre' = << >>
              /\ ncalls' = ncalls + 1
              /\ call' = call
    /\ buf' = << >>
    /\ UNCHANGED <<mtvars, prog, rate, now, tape, rng, mode, sink, outs, mcs, feeds>>

\* phit_route(num_destinations): phit_sample_compound(2), then the modulo
CallRoute ==
    /\ CanSample
    /\ \E k \in RouteArgs :
         Enter([Idle EXCEPT !.op = "route", !.arg = k, !.left = 2])
    /\ buf' = << >>
    /\ UNCHANGED <<mtvars, prog, rate, now, tape, rng, mode, sink, outs, mcs, feeds>>

\* one iteration of the loop of phit_sample_compound
StepRead ==
    /\ call.op \in {"compound", "route"}
    /\ call.left > 0
    /\ \E t \in TimerReadings :
         LET key == CompoundFold(call.key, call.i, U64(t))
             v   == phit_hash32(key)
         IN /\ TimerRead(t)
            /\ reads' = Append(reads, t)
            /\ IF call.left > 1
               THEN /\ call' = [call EXCEPT !.left = @ - 1, !.i = @ + 1, !.key = key]
                    /\ ret' = ret
                    /\ ev' = "read"
               ELSE /\ call' = Idle
                    /\ ev' = "return"
                    /\ ret' \in IF call.op = "route" THEN RouteReturn(v, call.arg)
                                ELSE {Ret("compound", call.arg, "u32", v, 0)}
    /\ sink' = SampleWorkload(call.i)
    /\ UNCHANGED <<mtvars, prog, rate, rng, mode, buf, pre, outs, mcs, feeds, ncalls,
                   entry>>

\* the scheduler's phit_route(num_workers): one workload, one timer read
CallSchedRoute ==
    /\ CanCall /\ prog = "phit_scheduler"
    /\ \E k \in RouteArgs, t \in TimerReadings :
         /\ TimerRead(t)
         /\ BeginRead(t)
         /\ ret' \in SchedRouteReturn(SchedRouteKey(U64(t)), k)
    /\ sink' = SampleLoop(DEADBEEF, 10)
    /\ ev' = "return"
    /\ pre' = << >> /\ buf' = << >>
    /\ ncalls' = ncalls + 1
    /\ UNCHANGED <<mtvars, prog, rate, rng, mode, call, outs, mcs, feeds>>

Next ==
    \/ CallPoolInit
    \/ CallFeed
    \/ CallHarvest
    \/ CallExtract
    \/ CallPrngInit
    \/ CallU64
    \/ CallU32
    \/ CallDouble
    \/ CallRange
    \/ CallFill
    \/ StepHarvest
    \/ CallSample
    \/ CallCompound
    \/ CallRoute
    \/ StepRead
    \/ CallSchedRoute

Spec == Init /\ [][Next]_vars

(***************************************************************************)
(* Concurrent callers of the library: every thread owns one phit_prng_t    *)
(* and calls next_u64 and route on its own; the threads share the          *)
(* file-scope sink and the timer and nothing orders their steps            *)
(***************************************************************************)
MaxThreadOps == 2      \* calls the threads make in all

MTRouteArgs == {3}

\* the values the shared timer returns
MTTimerValues == {0, TICK}

MTCalls == {[op |-> "u64", arg |-> 0]}
           \cup {[op |-> "route", arg |-> k] : k \in MTRouteArgs}

\* passes of the workload-and-read loop each call makes
Passes(op) ==
    CASE op = "u64"   -> PHIT_POOL_LANES
      [] op = "route" -> 2

\* fault variant of HarvestValue: x is read back from the sink
HarvestValueFromSink(x, s) == s

\* the workload word phit_pool_harvest feeds, `(uint64_t)x ^ t`: of its local
\* x and the sink s it stored x to, the code reads the local
HarvestValue(x, s) == x

\* a 64-bit store made as two 32-bit stores, caught half-way by another one
Torn(lo, hi) == SubSeq(lo, 1, 4) \o SubSeq(hi, 5, 8)

\* what the sink may hold after thread t stored x: the store is not atomic
\* and not ordered with the stores of other threads, so while another thread
\* is inside a call that stores to the sink the halves of two values may mix
StoreOutcomes(t, x) ==
    IF \E u \in Threads \ {t} : thr[u].pc.op # "idle"
    THEN {x, Torn(x, mem.sink), Torn(mem.sink, x)}
    ELSE {x}

\* the timer is one clock for all threads
MTTimerReadings == {v \in MTTimerValues : v >= mem.now}

\* thread t enters a call; next_u64 counts it in generated first
MTCall(t) ==
    /\ thr[t].pc.op = "idle"
    /\ Len(thr[1].ops) + Len(thr[2].ops) < MaxThreadOps
    /\ \E c \in MTCalls :
         thr' = [thr EXCEPT
                   ![t].pc = [op |-> c.op, arg |-> c.arg, left |-> Passes(c.op),
                              i |-> 0, key |-> Zero32, phase |-> "work"],
                   ![t].ops = Append(@, c),
                   ![t].inst.generated = IF c.op = "u64" THEN @ + 1 ELSE @]
    /\ UNCHANGED <<mem, seqvars>>

\* the workload loop and the store of its result to the sink
MTWorkload(t) ==
    /\ thr[t].pc.op # "idle"
    /\ thr[t].pc.phase = "work"
    /\ LET x == IF thr[t].pc.op = "route" THEN SampleWorkload(thr[t].pc.i)
                ELSE HarvestWorkload
       IN /\ thr' = [thr EXCEPT ![t].x = x, ![t].pc.phase = "read"]
          /\ \E v \in StoreOutcomes(t, x) :
               mem' = [mem EXCEPT
                         !.sink = v,
                         !.acc = @ \cup {[thread |-> t, op |-> thr[t].pc.op,
                                          loc |-> "sink", kind |-> "write"]}]
    /\ UNCHANGED seqvars

\* the timer read and what follows it up to the next workload: the two feeds
\* of a harvest or the fold of a compound sample, and after the last pass the
\* output, the mutation and the return
MTRead(t) ==
    /\ thr[t].pc.op # "idle"
    /\ thr[t].pc.phase = "read"
    /\ \E v \in MTTimerReadings :
         LET me   == thr[t]
             pc   == me.pc
             last == pc.left = 1
             next == IF last
                     THEN [pc EXCEPT !.op = "idle", !.left = 0, !.phase = "none"]
                     ELSE [pc EXCEPT !.left = @ - 1, !.i = @ + 1, !.phase = "work"]
             p1   == phit_pool_feed(phit_pool_feed(me.inst.pool, U64(v)),
                                    WXor(HarvestValue(me.x, mem.sink), U64(v)))
             out  == ExtractOutput(p1)
             key  == CompoundFold(pc.key, pc.i, U64(v))
         IN /\ mem' = [mem EXCEPT
                         !.now = v,
                         !.acc = @ \cup {[thread |-> t, op |-> pc.op,
                                          loc |-> "timer", kind |-> "read"]}]
            /\ CASE pc.op = "u64" ->
                      thr' = [thr EXCEPT
                                ![t].inst.pool = IF last THEN ExtractMutate(p1, out)
                                                 ELSE p1,
                                ![t].pc = next,
                                ![t].reads = Append(@, v),
                                ![t].rets = IF last
                                            THEN Append(@, Ret("u64", 0, "u64", out, 1))
                                            ELSE @]
                 [] pc.op = "route" ->
                      \E r \in RouteReturn(phit_hash32(key), pc.arg) :
                        thr' = [thr EXCEPT
                                  ![t].pc = [next EXCEPT !.key = IF last THEN Zero32
                                                                 ELSE key],
                                  ![t].reads = Append(@, v),
                                  ![t].rets = IF last THEN Append(@, r) ELSE @]
    /\ UNCHANGED seqvars

InitMT ==
    /\ prog = "libphit"
    /\ rate = 0
    /\ now = 0
    /\ tape = << >>
    /\ rng = RawRng
    /\ mode = "raw"
    /\ sink = Zero64
    /\ call = Idle
    /\ ret = NoRet
    /\ buf = << >>
    /\ ev = "start"
    /\ pre = << >>
    /\ outs = << >>
    /\ mcs = << >>
    /\ feeds = 0
    /\ ncalls = 0
    /\ reads = << >>
    /\ entry = rng
    /\ thr = ThrInit
    /\ mem = MemInit

NextMT ==
    \/ \E t \in Threads : MTCall(t)
    \/ \E t \in Threads : MTWorkload(t)
    \/ \E t \in Threads : MTRead(t)

SpecMT == InitMT /\ [][NextMT]_vars

(***************************************************************************)
(* A thread's calls run alone on the timer readings it got                 *)
(***************************************************************************)
\* one call made alone: st is [rng, reads, rets], the instance, the readings
\* not yet consumed and the values returned so far
SoloCall(st, c) ==
    LET r(i) == U64(st.reads[i])
    IN CASE c.op = "u64" ->
              LET p4  == phit_pool_harvest(phit_pool_harvest(phit_pool_harvest(
                             phit_pool_harvest(st.rng.pool, r(1)), r(2)), r(3)), r(4))
                  out == ExtractOutput(p4)
              IN [rng   |-> [pool |-> ExtractMutate(p4, out),
                             generated |-> st.rng.generated + 1],
                  reads |-> SubSeq(st.reads, 5, Len(st.reads)),
                  rets  |-> Append(st.rets, Ret("u64", 0, "u64", out, 1))]
         [] c.op = "route" ->
              LET key == CompoundFold(CompoundFold(Zero32, 0, r(1)), 1, r(2))
                  v   == phit_hash32(key)
              IN [st EXCEPT
                    !.reads = SubSeq(@, 3, Len(@)),
                    !.rets = Append(@, Ret("route", c.arg, "int",
                                           S32(U32(WMod(v, c.arg))), 0))]

RECURSIVE SoloRun(_, _)
SoloRun(st, cs) ==
    IF cs = << >> THEN st ELSE SoloRun(SoloCall(st, Head(cs)), Tail(cs))

\* thread t's calls run alone from a fresh instance on the readings t got
Solo(t) ==
    SoloRun([rng |-> ThrInit[t].inst, reads |-> thr[t].reads, rets |-> << >>],
            thr[t].ops)

(***************************************************************************)
(* The feed step on its own: feeds applied to pools a caller may hold,     *)
(* among them counters about to carry and to wrap around                   *)
(***************************************************************************)
Ones64 == <<255, 255, 255, 255, 255, 255, 255, 255>>

FeedPools ==
    { ZeroPool,
      [pool |-> <<GOLDEN, MIX_C1, MIX_C2, LCG_MUL>>,
       mix_counter |-> U64(255), bits_collected |-> 0],
      [pool |-> <<Ones64, Zero64, LCG_ADD, GOLDEN>>,
       mix_counter |-> U64(65534), bits_collected |-> 0],
      [pool |-> <<MIX_C2, Ones64, Junk64, Zero64>>,
       mix_counter |-> Ones64, bits_collected |-> 0] }

InitFeed ==
    /\ prog = "libphit"
    /\ rate = 0
    /\ now = 0
    /\ tape = << >>
    /\ \E p \in FeedPools : rng = [pool |-> p, generated |-> 0]
    /\ mode = "pool"
    /\ sink = Zero64
    /\ call = Idle
    /\ ret = NoRet
    /\ buf = << >>
    /\ ev = "start"
    /\ pre = << >>
    /\ outs = << >>
    /\ mcs = << >>
    /\ feeds = 0
    /\ ncalls = 0
    /\ reads = << >>
    /\ entry = rng
    /\ thr = ThrInit
    /\ mem = MemInit

NextFeed == CallFeed

SpecFeed == InitFeed /\ [][NextFeed]_vars

(***************************************************************************)
(* The pool API alone, on pools whose counter starts anywhere: feed,       *)
(* harvest and extract calls in any order                                  *)
(***************************************************************************)
InitPool ==
    /\ prog = "libphit"
    /\ rate \in 0..MaxTicks
    /\ now = 0
    /\ tape = << >>
    /\ \E p \in FeedPools : rng = [pool |-> p, generated |-> 0]
    /\ mode = "pool"
    /\ sink = Zero64
    /\ call = Idle
    /\ ret = NoRet
    /\ buf = << >>
    /\ ev = "start"
    /\ pre = << >>
    /\ outs = << >>
    /\ mcs = << >>
    /\ feeds = 0
    /\ ncalls = 0
    /\ reads = << >>
    /\ entry = rng
    /\ thr = ThrInit
    /\ mem = MemInit

NextPool ==
    \/ CallFeed
    \/ CallHarvest
    \/ CallExtract
    \/ StepHarvest

SpecPool == InitPool /\ [][NextPool]_vars

(***************************************************************************)
(* Two threads feeding ONE pool with no lock: phit_pool_feed is plain C on *)
(* a plain struct, so each access to a field of *p is a step of its own.   *)
(* mem is the shared phit_pool_t, thr[t] the registers of thread t.  The   *)
(* accesses race, so the build may keep a field it has just written in a   *)
(* register or load it again: both are outcomes.                           *)
(***************************************************************************)
\* thread t calls phit_pool_feed(p, SharedSamples[t])
SharedSamples == <<U64(1), U64(2)>>

SharedThrInit ==
    [t \in Threads |->
        [pc |-> "idle", sample |-> SharedSamples[t], mc |-> Zero64,
         z |-> Zero64, slot |-> 0, lane |-> Zero64, rot |-> Zero64,
         nxt |-> Zero64, bits |-> 0, alone |-> TRUE, rank |-> 0]]

InitShared ==
    /\ prog = "libphit"
    /\ rate = 0
    /\ now = 0
    /\ tape = << >>
    /\ \E p \in FeedPools : rng = [pool |-> p, generated |-> 0]
    /\ mode = "pool"
    /\ sink = Zero64
    /\ call = Idle
    /\ ret = NoRet
    /\ buf = << >>
    /\ ev = "start"
    /\ pre = << >>
    /\ outs = << >>
    /\ mcs = << >>
    /\ feeds = 0
    /\ ncalls = 0
    /\ reads = << >>
    /\ entry = rng
    /\ thr = SharedThrInit
    /\ mem = rng.pool

Other(t) == 3 - t

\* the call is entered; alone and rank record whether and in which order the
\* two calls overlap
SharedBegin(t) ==
    /\ thr[t].pc = "idle"
    /\ thr' = [thr EXCEPT ![t].pc = "load_mc",
                          ![t].alone = thr[Other(t)].pc \in {"idle", "done"},
                          ![t].rank = IF thr[Other(t)].pc = "idle" THEN 1 ELSE 2]
    /\ UNCHANGED <<seqvars, mem>>

\* p->mix_counter++ : a load, then a store
SharedIncrement(t) ==
    /\ \/ /\ thr[t].pc = "load_mc"
          /\ thr' = [thr EXCEPT ![t].pc = "store_mc", ![t].mc = mem.mix_counter]
          /\ mem' = mem
       \/ /\ thr[t].pc = "store_mc"
          /\ thr' = [thr EXCEPT ![t].pc = "mix", ![t].mc = WAdd(@, U64(1))]
          /\ mem' = [mem EXCEPT !.mix_counter = WAdd(thr[t].mc, U64(1))]
    /\ UNCHANGED seqvars

\* fault variant of the mixing: the counter is left out of z
MixWithoutCounter(sample, mc) ==
    LET z1 == WMul(WXor(sample, WShr(sample, 30)), MIX_C1)
        z2 == WMul(WXor(z1, WShr(z1, 27)), MIX_C2)
    IN WXor(z2, WShr(z2, 31))

\* z of phit_pool_feed, from the sample and the counter value it reads
FeedMix(sample, mc) ==
    LET z0 == WAdd(sample, WMul(mc, GOLDEN))
        z1 == WMul(WXor(z0, WShr(z0, 30)), MIX_C1)
        z2 == WMul(WXor(z1, WShr(z1, 27)), MIX_C2)
    IN WXor(z2, WShr(z2, 31))

\* z = sample + p->mix_counter * GOLDEN, mixed
SharedMix(t) ==
    /\ thr[t].pc = "mix"
    /\ \E m \in {thr[t].mc, mem.mix_counter} :
         thr' = [thr EXCEPT ![t].pc = "load_slot",
                            ![t].z = FeedMix(thr[t].sample, m)]
    /\ UNCHANGED <<seqvars, mem>>

\* slot = mix_counter & 3;  p->pool[slot] ^= z : loads, then a store
SharedXorSlot(t) ==
    /\ \/ /\ thr[t].pc = "load_slot"
          /\ \E m \in {thr[t].mc, mem.mix_counter} :
               thr' = [thr EXCEPT ![t].pc = "store_slot",
                                  ![t].slot = m[1] % 4,
                                  ![t].lane = mem.pool[(m[1] % 4) + 1]]
          /\ mem' = mem
       \/ /\ thr[t].pc = "store_slot"
          /\ thr' = [thr EXCEPT ![t].pc = "load_next",
                                ![t].lane = WXor(@, thr[t].z)]
          /\ mem' = [mem EXCEPT !.pool[thr[t].slot + 1] =
                                   WXor(thr[t].lane, thr[t].z)]
    /\ UNCHANGED seqvars

\* p->pool[(slot + 1) & 3] ^= rotl64(p->pool[slot], 17) : loads, then a store
SharedXorNext(t) ==
    /\ \/ /\ thr[t].pc = "load_next"
          /\ \E operand \in {thr[t].lane, mem.pool[thr[t].slot + 1]} :
               thr' = [thr EXCEPT ![t].pc = "store_next",
                                  ![t].rot = phit__rotl64(operand, 17),
                                  ![t].nxt = mem.pool[((thr[t].slot + 1) % 4) + 1]]
          /\ mem' = mem
       \/ /\ thr[t].pc = "store_next"
          /\ thr' = [thr EXCEPT ![t].pc = "load_bits"]
          /\ mem' = [mem EXCEPT !.pool[((thr[t].slot + 1) % 4) + 1] =
                                   WXor(thr[t].nxt, thr[t].rot)]
    /\ UNCHANGED seqvars

\* p->bits_collected += 2 : a load, then a store; the call returns
SharedBits(t) ==
    /\ \/ /\ thr[t].pc = "load_bits"
          /\ thr' = [thr EXCEPT ![t].pc = "store_bits",
                                ![t].bits = mem.bits_collected]
          /\ mem' = mem
       \/ /\ thr[t].pc = "store_bits"
          /\ thr' = [thr EXCEPT ![t].pc = "done"]
          /\ mem' = [mem EXCEPT !.bits_collected = thr[t].bits + 2]
    /\ UNCHANGED seqvars

NextShared ==
    \E t \in Threads :
        \/ SharedBegin(t)
        \/ SharedIncrement(t)
        \/ SharedMix(t)
        \/ SharedXorSlot(t)
        \/ SharedXorNext(t)
        \/ SharedBits(t)

SpecShared == InitShared /\ [][NextShared]_vars

(***************************************************************************)
(* The pool built with another lane count: -DPHIT_POOL_LANES=L sizes the   *)
(* array pool[L] and the harvest loop of extract, while feed and extract   *)
(* index the lanes with the literals 3, 0, 1, 2, 3.  mem is the struct as  *)
(* it lies in memory: words 1..L are pool[0..L-1], word L+1 is mix_counter,*)
(* word L+2 holds bits_collected (low 4 bytes) and padding.  pool[i] with  *)
(* i >= L is out of bounds: the build either accesses the word that lies   *)
(* there or stops the process (a checked build).                           *)
(***************************************************************************)
LaneCounts == {2, 4, 8}

LanesMem(L) ==
    [lanes |-> L, w |-> [i \in 1..(L + 2) |-> Zero64], acc |-> {},
     slot |-> 0, mc |-> Zero64, fault |-> FALSE, ub |-> FALSE]

InitLanes ==
    /\ prog = "libphit"
    /\ rate \in 0..MaxTicks
    /\ now = 0
    /\ tape = << >>
    /\ rng = RawRng
    /\ mode = "pool"
    /\ sink = Zero64
    /\ call = Idle
    /\ ret = NoRet
    /\ buf = << >>
    /\ ev = "start"
    /\ pre = << >>
    /\ outs = << >>
    /\ mcs = << >>
    /\ feeds = 0
    /\ ncalls = 0
    /\ reads = << >>
    /\ entry = rng
    /\ thr = ThrInit
    /\ \E L \in LaneCounts : mem = LanesMem(L)

\* the outcomes of an access to pool[i], ..., of which `m` is the result when
\* the words that lie there are accessed
LanesOutcomes(m, idx) ==
    IF \A i \in idx : i < m.lanes THEN {[m EXCEPT !.acc = @ \cup idx]}
    ELSE { [m EXCEPT !.acc = @ \cup idx, !.ub = TRUE],
           [m EXCEPT !.acc = @ \cup idx, !.ub = TRUE, !.fault = TRUE] }

\* phit_pool_feed on the struct in memory
LanesFeed(m, sample) ==
    LET L    == m.lanes
        mc   == WAdd(m.w[L + 1], U64(1))
        w1   == [m.w EXCEPT ![L + 1] = mc]
        z    == FeedMix(sample, mc)
        slot == mc[1] % 4
        nxt  == (slot + 1) % 4
        w2   == [w1 EXCEPT ![slot + 1] = WXor(@, z)]
        w3   == [w2 EXCEPT ![nxt + 1] = WXor(@, phit__rotl64(w2[slot + 1], 17))]
        w4   == [w3 EXCEPT ![L + 2] =
                   WAdd(Trunc32(@), U32(2)) \o SubSeq(@, 5, 8)]
    IN LanesOutcomes([m EXCEPT !.w = w4, !.slot = slot, !.mc = mc], {slot, nxt})

\* phit_pool_harvest on the struct in memory: feed(t), then feed(t ^ x)
LanesHarvest(m, t) ==
    UNION { IF a.fault THEN {a} ELSE LanesFeed(a, WXor(HarvestWorkload, t)) :
            a \in LanesFeed(m, t) }

\* the output and mutation of phit_pool_extract on the struct in memory
LanesFold(m) ==
    LET out == WXor(WXor(WXor(m.w[1], phit__rotl64(m.w[2], 13)),
                         phit__rotl64(m.w[3], 29)),
                    phit__rotl64(m.w[4], 43))
        w1  == [m.w EXCEPT ![1] = WXor(@, phit__rotl64(out, 7)),
                           ![2] = WXor(@, phit__rotl64(out, 23))]
    IN {[a EXCEPT !.mc = out] : a \in LanesOutcomes([m EXCEPT !.w = w1], {0, 1, 2, 3})}

LanesCanCall == CanCall /\ ~mem.fault

LanesCallFeed ==
    /\ LanesCanCall
    /\ \E sample \in FeedSamples :
         /\ mem' \in LanesFeed(mem, sample)
         /\ ret' = Ret("feed", sample, "void", 0, 0)
    /\ ev' = "feed"
    /\ Begin
    /\ ncalls' = ncalls + 1
    /\ UNCHANGED <<thr, prog, rate, now, tape, rng, mode, sink, call, buf, pre,
                   outs, mcs, feeds>>

\* phit_pool_extract entered: for (i = 0; i < PHIT_POOL_LANES; i++)
LanesCallExtract ==
    /\ LanesCanCall
    /\ Enter([Idle EXCEPT !.op = "extract", !.left = mem.lanes])
    /\ UNCHANGED <<mtvars, prog, rate, now, tape, rng, mode, sink, buf, outs,
                   mcs, feeds>>

\* one pass of the harvest loop; the last pass also folds, mutates, returns
LanesStep ==
    /\ call.op = "extract" /\ call.left > 0 /\ ~mem.fault
    /\ \E t \in TimerReadings :
         /\ TimerRead(t)
         /\ reads' = Append(reads, t)
         /\ \E h \in LanesHarvest(mem, U64(t)) :
              IF call.left > 1 \/ h.fault
              THEN /\ mem' = h
                   /\ call' = [call EXCEPT !.left = @ - 1]
                   /\ ev' = "harvest"
                   /\ UNCHANGED <<ret, outs>>
              ELSE /\ \E f \in LanesFold(h) :
                        /\ mem' = [f EXCEPT !.mc = h.mc]
                        /\ outs' = IF f.fault THEN outs ELSE Append(outs, f.mc)
                        /\ ret' = IF f.fault THEN ret
                                  ELSE Ret("extract", 0, "u64", f.mc, 1)
                   /\ call' = Idle
                   /\ ev' = "extract"
    /\ sink' = HarvestWorkload
    /\ UNCHANGED <<thr, prog, rate, rng, mode, buf, pre, mcs, feeds, ncalls,
                   entry>>

NextLanes ==
    \/ LanesCallFeed
    \/ LanesCallExtract
    \/ LanesStep

SpecLanes == InitLanes /\ [][NextLanes]_vars

(***************************************************************************)
(* The hash functions called on their own, one call site per run: the     *)
(* caller hashes two keys, and the first key once more; mem holds the keys *)
(* and what came back, with what the program's second copy of the same     *)
(* mixing returns for the first key (the scheduler's phit_hash, the mixing *)
(* inlined in pool_feed)                                                   *)
(***************************************************************************)
HashInputs32 ==
    { Zero32, U32(1), U32(2), U32(42), U32(43), U32(65536), <<0, 0, 0, 128>>,
      <<0, 0, 0, 64>>, <<255, 255, 255, 255>>, <<255, 255, 255, 127>>,
      HASH_C1, HASH_C2 }

HashInputs64 ==
    { Zero64, U64(1), U64(2), U64(42), U64(43), <<0, 0, 0, 0, 0, 0, 0, 128>>,
      <<0, 0, 0, 0, 1, 0, 0, 0>>, Ones64, Junk64, GOLDEN, MIX_C1, LCG_MUL }

HashMem(fn, x, y, hx, hy, again, copy) ==
    [fn |-> fn, x |-> x, y |-> y, hx |-> hx, hy |-> hy, again |-> again,
     copy |-> copy]

InitHash ==
    /\ prog \in {"libphit", "phit_prng", "phit_scheduler"}
    /\ rate = 0
    /\ now = 0
    /\ tape = << >>
    /\ rng = RawRng
    /\ mode = "raw"
    /\ sink = Zero64
    /\ call = Idle
    /\ ret = NoRet
    /\ buf = << >>
    /\ ev = "start"
    /\ pre = << >>
    /\ outs = << >>
    /\ mcs = << >>
    /\ feeds = 0
    /\ ncalls = 0
    /\ reads = << >>
    /\ entry = rng
    /\ thr = ThrInit
    /\ mem = HashMem("none", Zero32, Zero32, Zero32, Zero32, Zero32, Zero32)

\* phit_hash32(x), phit_hash32(y), phit_hash32(x) again; the scheduler's
\* phit_hash(x)
CallHash32 ==
    /\ mem.fn = "none"
    /\ \E x \in HashInputs32, y \in HashInputs32 :
         mem' = HashMem("hash32", x, y, phit_hash32(x), phit_hash32(y),
                        phit_hash32(x), phit_hash(x))
    /\ UNCHANGED <<seqvars, thr>>

\* phit_hash64(x), phit_hash64(y), phit_hash64(x) again; the z that pool_feed
\* of phit_prng.c mixes from sample + mix_counter * GOLDEN = x, read from the
\* lane of a zeroed pool it is XORed into
CallHash64 ==
    /\ mem.fn = "none"
    /\ \E x \in HashInputs64, y \in HashInputs64 :
         mem' = HashMem("hash64", x, y, phit_hash64(x), phit_hash64(y),
                        phit_hash64(x),
                        pool_feed(ZeroPool,
                                  WAdd(x, WAdd(WXor(GOLDEN, Ones64), U64(1)))
                                 ).pool[2])
    /\ UNCHANGED <<seqvars, thr>>

NextHash ==
    \/ CallHash32
    \/ CallHash64

SpecHash == InitHash /\ [][NextHash]_vars

(***************************************************************************)
(* The diagnostic counters at their widths: mix_counter is a uint64_t,     *)
(* bits_collected an int.  Runs start on a fresh pool or on the pool that  *)
(* 2^30 - 2 calls of phit_pool_feed(p, 1) leave behind a phit_pool_init.   *)
(* bits_collected += 2 beyond INT_MAX is a signed overflow: the build      *)
(* wraps the word in memory or, compiled to trap on overflow, aborts.      *)
(***************************************************************************)
AfterManyFeeds ==
    [pool |-> << <<44, 255, 236, 115, 11, 85, 209, 186>>,
                 <<118, 111, 115, 242, 210, 39, 47, 95>>,
                 <<240, 30, 96, 119, 60, 194, 76, 232>>,
                 <<45, 51, 103, 248, 201, 224, 12, 52>> >>,
     mix_counter |-> <<254, 255, 255, 63, 0, 0, 0, 0>>,
     bits_collected |-> 2147483644]

InitCounter ==
    /\ prog = "libphit"
    /\ rate \in 0..MaxTicks
    /\ now = 0
    /\ tape = << >>
    /\ \E p \in {ZeroPool, AfterManyFeeds} : rng = [pool |-> p, generated |-> 0]
    /\ mode = "pool"
    /\ sink = Zero64
    /\ call = Idle
    /\ ret = NoRet
    /\ buf = << >>
    /\ ev = "start"
    /\ pre = << >>
    /\ outs = << >>
    /\ mcs = <<rng.pool.mix_counter>>
    /\ feeds = 0
    /\ ncalls = 0
    /\ reads = << >>
    /\ entry = rng
    /\ thr = ThrInit
    /\ mem = MemInit

\* fault variant of the increment of bits_collected: nothing is added
BitsNotCounted(b) == {[trap |-> FALSE, v |-> b]}

\* p->bits_collected += 2 on an int: the values v it can leave; trap when
\* the build aborts on the overflow and leaves the value as it was
BitsAfterFeed(b) ==
    IF b > 2147483647 - 2
    THEN {[trap |-> FALSE, v |-> (b - 2147483647) - 2147483647],
          [trap |-> TRUE, v |-> b]}
    ELSE {[trap |-> FALSE, v |-> b + 2]}

\* phit_pool_feed for each value of vs in turn, from the outcome o on; an
\* outcome is the pool, the feeds entered, whether an overflow happened and
\* whether the process was aborted
RECURSIVE FeedsOutcomes(_, _)
FeedsOutcomes(o, vs) ==
    IF vs = << >> \/ o.trap THEN {o}
    ELSE LET q == phit_pool_feed([o.pool EXCEPT !.bits_collected = 0], Head(vs))
         IN UNION {
              FeedsOutcomes(
                [pool |-> [q EXCEPT !.bits_collected = b.v],
                 n    |-> o.n + 1,
                 ub   |-> o.ub \/ o.pool.bits_collected > 2147483647 - 2,
                 trap |-> b.trap],
                Tail(vs)) : b \in BitsAfterFeed(o.pool.bits_collected) }

\* a call of phit_pool_feed, phit_pool_harvest or phit_pool_extract, whole
CounterCall ==
    /\ CanCall /\ ret.kind # "trap"
    /\ \E op \in {"feed", "harvest", "extract"} :
       \E sample \in IF op = "feed" THEN FeedSamples ELSE {Zero64} :
         LET n  == CASE op = "feed" -> 0 [] op = "harvest" -> 1
                     [] op = "extract" -> PHIT_POOL_LANES
             ts == [k \in 1..n |-> now + k * rate * TICK]
             vs == IF op = "feed" THEN <<sample>>
                   ELSE [k \in 1..(2 * n) |->
                           IF k % 2 = 1 THEN U64(ts[(k + 1) \div 2])
                           ELSE WXor(HarvestWorkload, U64(ts[k \div 2]))]
         IN \E o \in FeedsOutcomes([pool |-> rng.pool, n |-> 0, ub |-> FALSE,
                                     trap |-> FALSE], vs) :
              LET out == ExtractOutput(o.pool)
                  fin == op = "extract" /\ ~o.trap
              IN /\ rng' = [rng EXCEPT !.pool = IF fin THEN ExtractMutate(o.pool, out)
                                                ELSE o.pool]
                 /\ ret' = [Ret(op, sample, IF o.trap THEN "trap"
                                            ELSE IF fin THEN "u64" ELSE "void",
                                IF fin THEN out ELSE 0, IF fin THEN 1 ELSE 0)
                              EXCEPT !.ub = o.ub]
                 /\ outs' = IF fin THEN Append(outs, out) ELSE outs
                 /\ feeds' = feeds + o.n
                 /\ reads' = ts
                 /\ now' = now + n * rate * TICK
                 /\ sink' = IF op = "feed" THEN sink ELSE HarvestWorkload
                 /\ ev' = op
    /\ entry' = rng
    /\ ncalls' = ncalls + 1
    /\ UNCHANGED <<mtvars, prog, rate, tape, mode, call, buf, pre, mcs>>

SpecCounter == InitCounter /\ [][CounterCall]_vars

(***************************************************************************)
(* Notions the properties are stated with                                  *)
(***************************************************************************)
\* bit i (0 = least significant) of a word
WordBit(x, i) == Bit(x[(i \div 8) + 1], i % 8)

\* rotation to the left by k bits, stated bit by bit: bit i moves to bit
\* (i + k) mod 8*Len(x)
RotateLeft(x, k) ==
    LET w == 8 * Len(x)
    IN Word([j \in 1..Len(x) |->
               WordBit(x, (8 * (j - 1) + 0 - k) % w)
             + WordBit(x, (8 * (j - 1) + 1 - k) % w) * 2
             + WordBit(x, (8 * (j - 1) + 2 - k) % w) * 4
             + WordBit(x, (8 * (j - 1) + 3 - k) % w) * 8
             + WordBit(x, (8 * (j - 1) + 4 - k) % w) * 16
             + WordBit(x, (8 * (j - 1) + 5 - k) % w) * 32
             + WordBit(x, (8 * (j - 1) + 6 - k) % w) * 64
             + WordBit(x, (8 * (j - 1) + 7 - k) % w) * 128], Len(x))

\* the lanes folded the way extract folds them
Fold(lanes) ==
    WXor(WXor(WXor(lanes[1], RotateLeft(lanes[2], 13)), RotateLeft(lanes[3], 29)),
         RotateLeft(lanes[4], 43))

\* v ^ rotl(v, a) ^ rotl(v, b)
Tri(v, a, b) == WXor(WXor(v, RotateLeft(v, a)), RotateLeft(v, b))

\* Folding the lanes left by an extraction that returned `out` gives
\* T(out) = out ^ rotl(out, 7) ^ rotl(out, 36): the two mutations cancel
\* against lanes 0 and 1 of the fold (23 + 13 = 36).  T is linear over GF(2)
\* and T^64 is the identity, so T^63 undoes it; T^(2^j) doubles the rotation
\* amounts modulo 64, hence T^16 = rotl(., 48) and T^32 = rotl(., 32).
Recover(lanes) ==
    LET v1 == Tri(Fold(lanes), 7, 36)
        v2 == Tri(v1, 14, 8)
        v4 == Tri(v2, 28, 16)
        v8 == Tri(v4, 56, 32)
    IN RotateLeft(RotateLeft(v8, 48), 32)

\* the output of the last extraction
LastOut == outs[Len(outs)]

(***************************************************************************)
(* Properties                                                              *)
(***************************************************************************)
\* C1 (forward secrecy of extract): the value an extraction returned cannot
\* be recomputed from the lanes the extraction leaves behind; in particular
\* Recover, which reads nothing but these lanes, does not yield it
ForwardSecrecy == ev = "extract" => Recover(rng.pool.pool) # LastOut

\* the opposite holds of every extraction: Recover applied to the lanes left
\* behind is the value just returned
ExtractRecoverable == ev = "extract" => Recover(rng.pool.pool) = LastOut

\* C2 (router domain validity): for k > 0, route(k) returns an integer r
\* with 0 <= r < k, for the library router and the scheduler's router
RouterDomainValidity ==
    (ret.op = "route" /\ ret.arg > 0)
        => (ret.kind = "int" /\ 0 <= ret.val /\ ret.val < ret.arg)

\* a library route(8) returned a destination other than 0
RoutedToNonZero ==
    prog = "libphit" /\ ret.op = "route" /\ ret.arg = 8 /\ ret.kind = "int"
    /\ ret.val > 0

\* C3 (route(0) fails explicitly): a route call with num_destinations = 0
\* ends in an error reported to the caller; it returns no destination index
\* and executes no modulo by zero
RouteZeroFailsExplicitly ==
    (ret.op = "route" /\ ret.arg = 0) => (ret.kind = "error" /\ ~ret.ub)

\* C4 (next_range(0) is rejected explicitly): a bounded-integer call with
\* max = 0 ends in an error reported to the caller; it returns no value, in
\* particular not 0, and executes no modulo by zero
RangeZeroRejected ==
    (ret.op = "range" /\ ret.arg = 0) => (ret.kind = "error" /\ ~ret.ub)

\* C5 (the mix counter strictly increases and is never reset): in the
\* lifetime of a pool, begun by its initialization, mix_counter is the
\* number of feeds performed so far (a harvest feeds twice), so every feed
\* raised it by exactly 1 and nothing lowered or cleared it; and the counter
\* values seen by successive extractions strictly increase
MixCounterIncreases ==
    /\ mode # "raw" => rng.pool.mix_counter = U64(feeds)
    /\ \A i \in 1..(Len(mcs) - 1) : WLt(mcs[i], mcs[i + 1])

\* a second extraction from the same pool has just returned
TwoExtractionsSeen ==
    ev = "extract" /\ Len(mcs) >= 2 /\ feeds >= 16

\* C6 (PRNG non-degeneracy): the first two next_u64 results of a freshly
\* initialized PRNG differ, whatever non-decreasing values the timer returns
NonDegenerate ==
    (mode = "prng" /\ Len(outs) >= 2) => outs[1] # outs[2]

\* C7 (the mutation step of extract): once out is computed from the lanes,
\* lane 0 becomes lane 0 ^ rotl(out, 7), lane 1 becomes lane 1 ^ rotl(out, 23),
\* lanes 2 and 3 stay, and for out # 0 lanes 0 and 1 both differ from what
\* they were before the mutation
ExtractMutation ==
    ev = "extract" =>
        LET lanes == rng.pool.pool
        IN /\ LastOut = Fold(pre)
           /\ lanes[1] = WXor(pre[1], RotateLeft(LastOut, 7))
           /\ lanes[2] = WXor(pre[2], RotateLeft(LastOut, 23))
           /\ lanes[3] = pre[3]
           /\ lanes[4] = pre[4]
           /\ LastOut # Zero64 => (lanes[1] # pre[1] /\ lanes[2] # pre[2])

\* a library extraction returned a non-zero value
NonZeroExtracted ==
    prog = "libphit" /\ ev = "extract" /\ LastOut # Zero64

\* the bytes n next_u64 results occupy in memory, oldest result first
RECURSIVE BytesOf(_, _)
BytesOf(k, n) ==
    IF n = 0 THEN << >> ELSE BytesOf(k, n - 1) \o outs[k + n]

\* C8 (fill correctness): fill(buf, n) writes bytes 0..n-1 of the buffer and
\* no byte behind them, makes ceil(n/8) next_u64 calls, and the bytes written
\* are the results of these calls in order, the last one cut to n mod 8 bytes
\* when n is no multiple of 8
FillCorrect ==
    ret.op = "fill" =>
        LET n     == ret.arg
            calls == (n + 7) \div 8
            bytes == BytesOf(Len(outs) - calls, calls)
        IN /\ ret.n64 = calls
           /\ rng.generated = Len(outs)
           /\ Len(buf) = n + GUARD
           /\ \A i \in 1..n : buf[i] = bytes[i]
           /\ \A i \in (n + 1)..Len(buf) : buf[i] = -1

\* a fill of 9 bytes returned: one whole value and one cut to a single byte
FilledNine ==
    ret.op = "fill" /\ ret.arg = 9 /\ ret.n64 = 2 /\ buf[9] = outs[Len(outs)][1]

\* C9 (the router touches no shared state): route reads and writes no
\* variable shared between callers other than the timer, so the route calls
\* of two threads never access a common memory location with one of the
\* accesses a write
RouterSharesNothing ==
    \A a, b \in mem.acc :
        (a.thread # b.thread /\ a.op = "route" /\ b.op = "route"
         /\ a.loc = b.loc /\ a.loc # "timer")
            => (a.kind = "read" /\ b.kind = "read")

\* C10 (per-thread ownership suffices): with every thread on an instance of
\* its own, whenever a thread is between calls its instance and the values
\* returned to it are those of its calls run alone on the timer readings it
\* got, however the steps of the threads interleaved
OwnershipSuffices ==
    \A t \in Threads :
        thr[t].pc.op = "idle" =>
            LET alone == Solo(t)
            IN /\ thr[t].inst = alone.rng
               /\ thr[t].rets = alone.rets
               /\ alone.reads = << >>

\* both threads drew a value and their calls overlapped: each got a reading
\* from before the tick and one from after it, and their stores to the sink
\* collided
OverlappingDraws ==
    /\ \A t \in Threads :
         /\ thr[t].pc.op = "idle"
         /\ Len(thr[t].rets) = 1
         /\ thr[t].rets[1].op = "u64"
         /\ thr[t].reads[1] = 0
         /\ thr[t].reads[4] = TICK
    /\ mem.sink # HarvestWorkload

\* C11 (compound_sample(0) is rejected): a compound_sample call with N = 0
\* ends in a contract violation reported to the caller and returns no sample
CompoundZeroRejected ==
    (ret.op = "compound" /\ ret.arg = 0) => ret.kind = "error"

\* the feed step as the reference states it: mix64 is phit_hash64, the slot
\* is the new counter modulo 4
FeedReference(p, sample) ==
    LET mc   == WAdd(p.mix_counter, U64(1))
        z    == phit_hash64(WAdd(sample, WMul(mc, GOLDEN)))
        slot == WMod(mc, 4)
        nxt  == (slot + 1) % 4
        l1   == [k \in 1..4 |-> IF k = slot + 1 THEN WXor(p.pool[k], z)
                                ELSE p.pool[k]]
    IN [mix_counter |-> mc,
        pool |-> <<l1[1], l1[2], l1[3], l1[4]>>,
        lanes |-> [k \in 1..4 |->
                     IF k = nxt + 1 THEN WXor(l1[k], RotateLeft(l1[slot + 1], 17))
                     ELSE l1[k]]]

\* lanes of a zeroed pool after feed(1), after feed(1), feed(2) and after
\* feed(1), feed(2), feed(3), computed apart from the model:
\*   0, 0x910a2dec89025cc1, 0x5bd91204b9832214, 0
\*   0, 0x910a2dec89025cc1, 0xe4115414b27f3c56, 0xa82964fe78adc822
\*   0x18b151fa2a466985, 0x910a2dec89025cc1, 0xe4115414b27f3c56, 0x34c28c58a8fd1523
FeedKnownAnswers ==
    << <<Zero64, <<193, 92, 2, 137, 236, 45, 10, 145>>,
         <<20, 34, 131, 185, 4, 18, 217, 91>>, Zero64>>,
       <<Zero64, <<193, 92, 2, 137, 236, 45, 10, 145>>,
         <<86, 60, 127, 178, 20, 84, 17, 228>>,
         <<34, 200, 173, 120, 254, 100, 41, 168>> >>,
       << <<133, 105, 70, 42, 250, 81, 177, 24>>,
          <<193, 92, 2, 137, 236, 45, 10, 145>>,
          <<86, 60, 127, 178, 20, 84, 17, 228>>,
          <<35, 21, 253, 168, 88, 140, 194, 52>> >> >>

\* C12 (feed matches the reference step): a feed of any sample to any pool
\* raises mix_counter by 1, XORs z = mix64(sample + mix_counter * GOLDEN) into
\* lane mix_counter mod 4, XORs the rotation by 17 of that lane's new value
\* into the next lane and leaves the other two lanes alone; feed(1), feed(2),
\* feed(3) on a zeroed pool give the lanes computed apart
FeedMatchesReference ==
    [][ev' = "feed" =>
         LET ref == FeedReference(rng.pool, ret'.arg)
         IN /\ rng'.pool.mix_counter = ref.mix_counter
            /\ \A k \in 1..4 : rng'.pool.pool[k] = ref.lanes[k]
            /\ \A n \in 1..3 :
                 (/\ rng.pool.mix_counter = U64(n - 1)
                  /\ rng.pool.pool = (IF n = 1 THEN ZeroPool.pool
                                      ELSE FeedKnownAnswers[n - 1])
                  /\ ret'.arg = U64(n))
                     => rng'.pool.pool = FeedKnownAnswers[n]]_vars

\* feed(1), feed(2), feed(3) were applied to a zeroed pool
ThreeFeedsDone ==
    /\ ev = "feed"
    /\ ret.arg = U64(3)
    /\ rng.pool.mix_counter = U64(3)
    /\ rng.pool.pool = FeedKnownAnswers[3]

\* the calls that make one extraction and return
OneExtraction == {"extract", "u64", "u32", "double", "range"}

\* one harvest of the pool a[1] on the timer value a[2]
HarvestOn[a \in Seq(Seq(0..255)) \X Seq(0..255) \X Nat \X Nat] ==
    Harvest([pool |-> a[1], mix_counter |-> a[2], bits_collected |-> a[3]],
            U64(a[4]))

\* the pool after harvests on the timer values ts, in order
RECURSIVE HarvestAll(_, _)
HarvestAll(p, ts) ==
    IF ts = << >> THEN p
    ELSE LET q == HarvestAll(p, SubSeq(ts, 1, Len(ts) - 1))
         IN HarvestOn[<<q.pool, q.mix_counter, q.bits_collected, ts[Len(ts)]>>]

\* C13 (extract harvests L = 4 times, then folds): an extraction reads the
\* timer 4 times and feeds 8 times, the lanes it folds are those of the pool
\* it was given after 4 harvests on these readings, not yet mutated, and the
\* value returned is lane 0 ^ rotl(lane 1, 13) ^ rotl(lane 2, 29) ^
\* rotl(lane 3, 43) of these lanes
ExtractHarvestsThenFolds ==
    (ev = "extract" /\ ret.op \in OneExtraction) =>
        /\ Len(reads) = 4
        /\ mcs[Len(mcs)] = WAdd(entry.pool.mix_counter, U64(8))
        /\ pre = HarvestAll(entry.pool, reads).pool
        /\ LastOut = WXor(WXor(WXor(pre[1], RotateLeft(pre[2], 13)),
                               RotateLeft(pre[3], 29)), RotateLeft(pre[4], 43))

\* a pool extraction returned after four distinct timer readings
ExtractedOnTickingTimer ==
    /\ ev = "extract" /\ ret.op = "extract"
    /\ Len(reads) = 4 /\ reads[1] < reads[2] /\ reads[3] < reads[4]

\* C14 (PRNG counter invariant): when init returns, the pool is that of 16
\* harvests on a zeroed pool, mix_counter is 32 and generated is 0; every
\* next_u64 since then raised generated by 1 and made one extraction, so
\* between calls mix_counter = 32 + 8 * generated
PrngCounterInvariant ==
    /\ ret.op = "prng_init" =>
         /\ Len(reads) = 16
         /\ rng.pool = HarvestAll(ZeroPool, reads)
         /\ rng.pool.mix_counter = U64(32)
         /\ rng.generated = 0
    /\ (mode = "prng" /\ call.op = "idle") =>
         /\ rng.generated = Len(outs)
         /\ rng.pool.mix_counter = U64(32 + 8 * rng.generated)

\* two values were drawn from an initialized PRNG
TwoDrawn ==
    mode = "prng" /\ call.op = "idle" /\ rng.generated = 2
    /\ rng.pool.mix_counter = U64(48)


\* 2^i modulo m
RECURSIVE PowMod(_, _)
PowMod(i, m) == IF i = 0 THEN 1 % m ELSE (2 * PowMod(i - 1, m)) % m

\* the residue modulo m of the word x: the sum of its bytes, each weighted
\* by the residue of its place value
RECURSIVE ResidueFrom(_, _, _)
ResidueFrom(x, m, j) ==
    IF j > Len(x) THEN 0
    ELSE ((x[j] % m) * PowMod(8 * (j - 1), m) + ResidueFrom(x, m, j + 1)) % m

\* the value of a word of at most 4 bytes whose top byte is below 128
SmallValue(w) == w[1] + 256 * w[2] + 65536 * w[3] + 16777216 * w[4]

\* C15 (next_range): for max > 0 the call returns the residue of its one
\* 64-bit draw modulo max, a value r with 0 <= r < max, and it consumes
\* exactly one draw: generated rises by 1 and one extraction (4 timer
\* reads) is made on the instance the caller passed
RangeIsDrawModMax ==
    (ret.op = "range" /\ ret.arg > 0) =>
        /\ ret.kind = "u32" /\ ~ret.ub
        /\ ret.val[4] < 128
        /\ SmallValue(ret.val) = ResidueFrom(LastOut, ret.arg, 1)
        /\ SmallValue(ret.val) >= 0 /\ SmallValue(ret.val) < ret.arg
        /\ ret.n64 = 1
        /\ rng.generated = entry.generated + 1
        /\ Len(reads) = PHIT_POOL_LANES
        /\ LastOut = Output(HarvestAll(entry.pool, reads))

\* a range call with max = 7 has returned a non-zero residue
RangeSevenReturned ==
    ret.op = "range" /\ ret.arg = 7 /\ ret.kind = "u32"
    /\ SmallValue(ret.val) > 0

\* C16 (next_double lies in [0,1)): the call returns v / 2^53 where v is the
\* top 53 bits of its one 64-bit draw; v is below 2^53, so the value returned
\* is at least 0 and strictly less than 1
DoubleInUnitInterval ==
    ret.op = "double" =>
        /\ ret.kind = "double" /\ ret.n64 = 1
        /\ \A i \in 0..52 : WordBit(ret.val, i) = WordBit(LastOut, i + 11)
        /\ \A i \in 53..63 : WordBit(ret.val, i) = 0

\* a double was returned from a draw with its top bit set and its low 11
\* bits not all zero: a value of at least one half
UpperHalfDouble ==
    ret.op = "double" /\ WordBit(LastOut, 63) = 1 /\ WordBit(ret.val, 52) = 1
    /\ (LastOut[1] # 0 \/ LastOut[2] % 8 # 0)

\* the N = 2 compound sample of the timer values t0 and t1
CompoundOfTwo(t0, t1) ==
    phit_hash32(CompoundFold(CompoundFold(Zero32, 0, U64(t0)), 1, U64(t1)))

\* C17 (route(k) is compound_sample(2) mod k, for every router of the
\* repository): a route call with k > 0 reads the timer exactly twice, once
\* after each of its two workloads, and returns the N = 2 compound sample of
\* the two readings reduced modulo k
RouteIsCompoundTwo ==
    (ret.op = "route" /\ ret.arg > 0) =>
        /\ Len(reads) = 2
        /\ ret.val = S32(U32(WMod(CompoundOfTwo(reads[1], reads[2]), ret.arg)))

\* the same, of the library's router alone
LibraryRouteIsCompoundTwo ==
    (prog = "libphit" /\ ret.op = "route" /\ ret.arg > 0) =>
        /\ Len(reads) = 2
        /\ ret.val = S32(U32(WMod(CompoundOfTwo(reads[1], reads[2]), ret.arg)))

\* both feeds on the shared pool have returned
BothFed == thr[1].pc = "done" /\ thr[2].pc = "done"

\* the pool after thread a's feed followed by thread b's, each run whole
FedInOrder(a, b) ==
    phit_pool_feed(phit_pool_feed(rng.pool, SharedSamples[a]), SharedSamples[b])

\* C19 (a shared pool is unsafe without synchronization): of two feeds on
\* one pool, calls that do not overlap leave the pool of the sequential
\* order in which they ran, every feed raising mix_counter by 1; calls that
\* overlap add 1 or 2 to mix_counter in all, and can end in a pool that
\* neither sequential order produces (the state LostIncrement)
SharedFeedOutcomes ==
    BothFed =>
        /\ (thr[1].alone /\ thr[2].alone) =>
              mem = (IF thr[1].rank = 1 THEN FedInOrder(1, 2)
                     ELSE FedInOrder(2, 1))
        /\ mem.mix_counter \in { WAdd(rng.pool.mix_counter, U64(1)),
                                 WAdd(rng.pool.mix_counter, U64(2)) }

\* both feeds returned, one increment of mix_counter was lost, and the pool
\* differs from the result of either sequential order
LostIncrement ==
    /\ BothFed
    /\ mem.mix_counter = WAdd(rng.pool.mix_counter, U64(1))
    /\ mem # FedInOrder(1, 2) /\ mem # FedInOrder(2, 1)
    /\ FedInOrder(1, 2).mix_counter = WAdd(rng.pool.mix_counter, U64(2))

\* the fold of the specified compound sample over the timer values ts, read
\* i first: the key of steps 2-3, offset by i, is XORed into the accumulator
\* unhashed and the accumulator is rotated left by 7
RECURSIVE SpecifiedFold(_, _, _)
SpecifiedFold(acc, i, ts) ==
    IF ts = << >> THEN acc
    ELSE SpecifiedFold(
           RotateLeft(WXor(acc, WAdd(SampleKey(U64(Head(ts)), SampleWorkload(i)),
                                     U32(i))), 7),
           i + 1, Tail(ts))

\* C20 (compound_sample(N) follows the specified fold): for N >= 1 the call
\* makes N timer reads and returns avalanche32 of the accumulator obtained
\* from acc = 0 by acc := rotl32(acc XOR (key_i + i), 7) for i = 0..N-1,
\* with no hash applied to the single reads
CompoundFollowsSpecifiedFold ==
    (ret.op = "compound" /\ ret.arg >= 1) =>
        /\ Len(reads) = ret.arg
        /\ ret.val = phit_hash32(SpecifiedFold(Zero32, 0, reads))

\* what the code computes: every key is offset, then hashed, before it is
\* folded into the accumulator
RECURSIVE CodeFold(_, _, _)
CodeFold(acc, i, ts) ==
    IF ts = << >> THEN acc
    ELSE CodeFold(
           RotateLeft(WXor(acc, phit_hash32(
               WAdd(SampleKey(U64(Head(ts)), SampleWorkload(i)), U32(i)))), 7),
           i + 1, Tail(ts))

\* the compound sample is the avalanche of the fold of the hashed keys
CompoundFoldsHashedKeys ==
    (ret.op = "compound" /\ ret.arg >= 1) =>
        /\ Len(reads) = ret.arg
        /\ ret.val = phit_hash32(CodeFold(Zero32, 0, reads))

\* the values fed by harvests on the timer values ts, x being the workload
\* result: t, then t XOR x
FedValues(ts, x) ==
    [k \in 1..(2 * Len(ts)) |->
        IF k % 2 = 1 THEN U64(ts[(k + 1) \div 2])
        ELSE WXor(x, U64(ts[k \div 2]))]

\* the pools after each feed of the values vs, p first
RECURSIVE FeedTrace(_, _)
FeedTrace(p, vs) ==
    IF vs = << >> THEN <<p>>
    ELSE <<p>> \o FeedTrace(phit_pool_feed(p, Head(vs)), Tail(vs))

\* the lanes a feed of `sample` that turned pool p into pool q can have had
\* as its direct XOR target: lane s took z, its successor took the rotation
\* of the new lane s, the other lanes were left alone
DirectTargets(p, q, sample) ==
    { s \in 0..(PHIT_POOL_LANES - 1) :
        LET n == (s + 1) % PHIT_POOL_LANES
        IN /\ q.pool[s + 1] = WXor(p.pool[s + 1], FeedMix(sample, q.mix_counter))
           /\ q.pool[n + 1] = WXor(p.pool[n + 1], RotateLeft(q.pool[s + 1], 17))
           /\ \A j \in 0..(PHIT_POOL_LANES - 1) :
                 j \notin {s, n} => q.pool[j + 1] = p.pool[j + 1] }

\* C21 (every extract gives every lane fresh input): whatever mix_counter is
\* when extract is called, the 8 feeds it performs before the output is
\* computed have each of the 4 lanes as their direct XOR target exactly twice
EveryLaneFedTwice ==
    (ev = "extract" /\ ret.op = "extract") =>
        LET fed == FedValues(reads, sink)
            tr  == FeedTrace(entry.pool, fed)
            tg  == [k \in 1..8 |-> DirectTargets(tr[k], tr[k + 1], fed[k])]
        IN /\ Len(fed) = 8
           /\ sink = HarvestWorkload
           /\ tr[9].pool = pre
           /\ \A lane \in 0..(PHIT_POOL_LANES - 1) :
                 Cardinality({ k \in 1..8 : tg[k] = {lane} }) = 2

\* an extraction has returned that was entered with mix_counter = 2^64 - 1
ExtractedAcrossWrap ==
    ev = "extract" /\ ret.op = "extract" /\ entry.pool.mix_counter = Ones64
    /\ mcs[Len(mcs)] = U64(7)

\* C22 (the lane count is configurable): for every lane count L the build is
\* configured with, no operation accesses a lane index >= L, a feed's direct
\* target is lane (mix_counter mod L), and an extraction has harvested L
\* times and combined the L lanes 0..L-1
LaneCountConfigurable ==
    /\ \A i \in mem.acc : i < mem.lanes
    /\ ~mem.ub
    /\ ev = "feed" => mem.slot = WMod(mem.mc, mem.lanes)
    /\ ev = "extract" =>
          /\ Len(reads) = mem.lanes
          /\ {0, 1, 2, 3} \cap mem.acc = 0..(mem.lanes - 1)

\* with the reference lane count the same holds
ReferenceLaneCount ==
    mem.lanes = PHIT_POOL_LANES =>
        /\ \A i \in mem.acc : i < mem.lanes
        /\ ~mem.ub
        /\ ev = "feed" => mem.slot = WMod(mem.mc, mem.lanes)
        /\ ev = "extract" => Len(reads) = mem.lanes /\ mem.acc = 0..(mem.lanes - 1)

\* the pool after one feed by the program that runs
FedBy(p, sample) ==
    IF prog = "libphit" THEN phit_pool_feed(p, sample) ELSE pool_feed(p, sample)

\* the pool after a harvest's two feeds on timer value t and workload result
\* x, in the order feed(t), feed(t XOR x)
TwoFeeds(p, t, x) == FedBy(FedBy(p, U64(t)), WXor(U64(t), x))

\* C23 (harvest reads the timer once and feeds twice, in order): every
\* harvest, called directly or as a pass of an initialization or extraction,
\* makes exactly one timer read t and leaves the pool of feed(t) followed by
\* feed(t XOR workload result); pool_init and feed read no timer, and an
\* extraction reads it only through its harvests
HarvestReadsOnceFeedsTwice ==
    [][ /\ ev' \in {"harvest", "extract"} =>
             /\ reads' = Append(IF call.op = "idle" THEN << >> ELSE reads, now')
             /\ now' \in TimerReadings
             /\ feeds' = feeds + 2
             /\ (IF ev' = "harvest" THEN rng'.pool ELSE [rng'.pool EXCEPT !.pool = pre'])
                  = TwoFeeds(rng.pool, now', sink')
        /\ ev' \in {"init", "feed", "call"} =>
             /\ now' = now /\ tape' = tape /\ reads' = << >>
      ]_vars

\* a harvest called directly has returned, on a timer reading above 0
HarvestedOnce ==
    ret.op = "harvest" /\ ev = "harvest" /\ Len(reads) = 1 /\ reads[1] > 0
    /\ rng.pool.mix_counter = U64(feeds) /\ feeds >= 2

\* XOR of two bits
BitXor(a, b) == (a + b) % 2

\* the 32-bit key stated bit by bit: bits 0-1 are bits 0-1 of t, and bit i
\* for i in 2..31 is bit i - 2 of ((t >> 2) XOR x), that is bit i of t XORed
\* with bit i - 2 of x
KeyByBits(t, x) ==
    LET b(i) == IF i < 2 THEN WordBit(t, i)
                ELSE BitXor(WordBit(t, i), WordBit(x, i - 2))
    IN [j \in 1..4 |->
          b(8 * j - 8) + 2 * b(8 * j - 7) + 4 * b(8 * j - 6) + 8 * b(8 * j - 5)
          + 16 * b(8 * j - 4) + 32 * b(8 * j - 3) + 64 * b(8 * j - 2)
          + 128 * b(8 * j - 1)]

\* C24 (basic sample key construction): the key hashed by sample() has bits
\* 0-1 equal to the low 2 bits of the timer value t and bits 2-31 equal to
\* the low 30 bits of ((t >> 2) XOR x), x being the workload result, and the
\* sample returned is avalanche32(key); the scheduler's router builds its
\* key the same way
SampleKeyConstruction ==
    /\ ret.op = "sample" =>
          /\ Len(reads) = 1
          /\ ret.val = phit_hash32(KeyByBits(U64(reads[1]), sink))
    /\ (prog = "phit_scheduler" /\ ret.op = "route" /\ ret.arg > 0) =>
          ret.val = S32(U32(WMod(phit_hash(KeyByBits(U64(reads[1]), sink)),
                                 ret.arg)))

\* a sample was returned on a timer value whose low 2 bits are not zero
SampledOddTimer ==
    ret.op = "sample" /\ Len(reads) = 1 /\ reads[1] % 4 # 0 /\ sink # Zero64

\* the inverse of x ^= x >> k on a word: x ^ (x >> k) ^ (x >> 2k) ^ ...
RECURSIVE UnXorShift(_, _, _)
UnXorShift(x, k, s) ==
    IF s >= 8 * Len(x) THEN x ELSE WXor(UnXorShift(x, k, s + k), WShr(x, s))

\* the inverses modulo 2^32 and 2^64 of the odd multipliers of the hashes
InverseOf ==
    [c1 |-> <<81, 47, 139, 14>>, c2 |-> <<67, 146, 203, 165>>,
     m1 |-> <<137, 144, 17, 63, 23, 27, 222, 150>>,
     m2 |-> <<195, 142, 77, 210, 178, 66, 150, 49>>]

\* the steps of avalanche32 and of mix64 undone in reverse order
Unhash32(h) ==
    LET k3 == UnXorShift(h, 13, 13)
        k2 == WMul(k3, InverseOf.c2)
        k1 == UnXorShift(k2, 16, 16)
    IN WMul(k1, InverseOf.c1)

Unhash64(h) ==
    LET k2 == WMul(UnXorShift(h, 31, 31), InverseOf.m2)
        k1 == WMul(UnXorShift(k2, 27, 27), InverseOf.m1)
    IN UnXorShift(k1, 30, 30)

\* C25 (the mixing hashes are injective pure functions): distinct keys have
\* distinct avalanche32 values and distinct mix64 values, each hash being
\* undone by the inverses of its odd multiplications and XOR-right-shifts;
\* a second evaluation on the same key returns the same value
HashesInjective ==
    /\ WMul(HASH_C1, InverseOf.c1) = U32(1) /\ WMul(HASH_C2, InverseOf.c2) = U32(1)
    /\ WMul(MIX_C1, InverseOf.m1) = U64(1) /\ WMul(MIX_C2, InverseOf.m2) = U64(1)
    /\ mem.fn \in {"hash32", "hash64"} =>
          /\ mem.x # mem.y => mem.hx # mem.hy
          /\ mem.again = mem.hx
    /\ mem.fn = "hash32" => Unhash32(mem.hx) = mem.x /\ Unhash32(mem.hy) = mem.y
    /\ mem.fn = "hash64" => Unhash64(mem.hx) = mem.x /\ Unhash64(mem.hy) = mem.y

\* two keys that differ in the top bit alone were hashed
TopBitPairHashed ==
    mem.fn = "hash32" /\ mem.x = Zero32 /\ mem.y = <<0, 0, 0, 128>>
    /\ mem.hx = Zero32 /\ mem.hy # Zero32

\* C26 (the duplicated implementations are bit-exact equivalents): every
\* step of the PRNG program phit_prng.c (prng_init's memset and seed rounds,
\* prng_u64's count, the harvests and the fold and mutation of pool_extract)
\* leaves the lanes, mix_counter, bits_collected and outputs that the
\* library's phit_pool_* and phit_prng_* functions leave on the same timer
\* reading, and the scheduler's router returns what it would return with
\* the library's phit_hash32 in the place of its own phit_hash
ImplementationsBitExact ==
    [][ /\ (prog = "phit_prng" /\ call.op # "idle") =>
             LET h   == phit_pool_harvest(rng.pool, U64(now'))
                 out == ExtractOutput(h)
             IN IF ev' = "extract"
                THEN /\ pre' = h.pool
                     /\ outs' = Append(outs, out)
                     /\ rng' = [rng EXCEPT !.pool = ExtractMutate(h, out)]
                ELSE rng' = [rng EXCEPT !.pool = h]
        /\ (prog = "phit_prng" /\ call.op = "idle") =>
             rng' = IF call'.op = "prng_init"
                    THEN [pool |-> phit_pool_init(rng.pool), generated |-> 0]
                    ELSE [rng EXCEPT !.generated = @ + 1]
        /\ (prog = "phit_scheduler" /\ ret'.arg > 0) =>
             ret'.val = S32(U32(WMod(phit_hash32(SampleKey(U64(now'), sink')),
                                     ret'.arg)))
      ]_vars

\* the same of the hashes called on their own: phit_hash(x) = phit_hash32(x)
\* and the z of pool_feed is phit_hash64 of sample + mix_counter * GOLDEN
HashCopiesAgree == mem.fn \in {"hash32", "hash64"} => mem.copy = mem.hx

\* the PRNG program has drawn a second value
ProgramDrewTwice ==
    prog = "phit_prng" /\ ret.op = "u64" /\ ev = "extract" /\ Len(outs) = 2
    /\ rng.pool.bits_collected = 96

\* the workload results as numbers: of read i = 0, 1, 2 of a sample
\* (0x9c1adda6f5632a81, 0x012673e8df819ee4, 0xb9945eab5db79107) and of a
\* harvest (0x4132d878a28b266e)
FixedWorkload ==
    << <<129, 42, 99, 245, 166, 221, 26, 156>>,
       <<228, 158, 129, 223, 232, 115, 38, 1>>,
       <<7, 145, 183, 93, 171, 94, 148, 185>> >>

FixedHarvestWorkload == <<110, 38, 139, 162, 120, 216, 50, 65>>

\* the compound key as a function of the timer values ts alone
RECURSIVE FixedFold(_, _, _)
FixedFold(acc, i, ts) ==
    IF ts = << >> THEN acc
    ELSE FixedFold(
           RotateLeft(WXor(acc, phit_hash32(
               WAdd(SampleKey(U64(Head(ts)), FixedWorkload[i + 1]), U32(i)))), 7),
           i + 1, Tail(ts))

CounterRelation ==
    LET mc == rng.pool.mix_counter
        b  == rng.pool.bits_collected
    IN /\ mc = WAdd(mcs[1], U64(feeds))
       /\ WLt(mc, <<0, 0, 0, 64, 0, 0, 0, 0>>) =>
             /\ b >= 0 /\ U64(b) = WAdd(mc, mc)
             /\ ~ret.ub /\ ret.kind # "trap"
       /\ ~WLt(mc, <<0, 0, 0, 64, 0, 0, 0, 0>>) =>
             \/ ret.kind = "trap" /\ ret.ub /\ b = 2147483646
             \/ b < 0 /\ b = (-2147483647 - 1) + 2 * (feeds - 2)

\* the feed number 2^30 has wrapped bits_collected to -2^31
BitsWrapped ==
    rng.pool.mix_counter = <<0, 0, 0, 64, 0, 0, 0, 0>>
    /\ rng.pool.bits_collected = -2147483647 - 1 /\ ret.ub

\* C29 (the library's phit_prng_range(rng, 0) leaves the PRNG untouched):
\* the call returns 0 without drawing: the lanes, mix_counter,
\* bits_collected and generated are as the caller passed them, no timer
\* read was made and no output was produced
RangeZeroTouchesNothing ==
    (prog = "libphit" /\ ret.op = "range" /\ ret.arg = 0) =>
        /\ rng = entry
        /\ reads = << >>
        /\ ret.n64 = 0 /\ ret.kind = "u32" /\ ret.val = Zero32 /\ ~ret.ub
        /\ Len(outs) = rng.generated
        /\ rng.pool.mix_counter = U64(32 + 8 * rng.generated)

\* range(0) has returned on a PRNG that had drawn a value before
RangeZeroAfterDraw ==
    prog = "libphit" /\ ret.op = "range" /\ ret.arg = 0 /\ rng.generated = 1
    /\ ncalls = 3

\* ---------------------------------------------------------------------------
\* The pool driven without a direct feed: every operation of the program
\* except phit_pool_feed
\* ---------------------------------------------------------------------------
NextDriven ==
    \/ CallPoolInit
    \/ CallHarvest
    \/ CallExtract
    \/ CallPrngInit
    \/ CallU64
    \/ CallU32
    \/ CallDouble
    \/ CallRange
    \/ CallFill
    \/ StepHarvest
    \/ CallSample
    \/ CallCompound
    \/ CallRoute
    \/ StepRead
    \/ CallSchedRoute

SpecDriven == Init /\ [][NextDriven]_vars

\* the lane pair a harvest starting at counter mc feeds: the raw timer value
\* first, the timer XOR workload value second
LanePair(mc) == IF mc[1] % 4 = 0 THEN <<1, 2>> ELSE <<3, 0>>

\* lane s is the direct XOR target of the feed of sample that took pool p to
\* pool q, its successor lane the cross-lane target, the other lanes untouched
FeedsLane(p, q, sample, s) ==
    LET n == (s + 1) % PHIT_POOL_LANES
    IN /\ q.pool[s + 1] = WXor(p.pool[s + 1], FeedMix(sample, q.mix_counter))
       /\ q.pool[n + 1] = WXor(p.pool[n + 1], RotateLeft(q.pool[s + 1], 17))
       /\ \A j \in 0..(PHIT_POOL_LANES - 1) :
             j \notin {s, n} => q.pool[j + 1] = p.pool[j + 1]

\* C30 (feed parity): in a pool driven through init, harvest, extract and the
\* PRNG accessors only, mix_counter is even whenever the pool is initialized
\* and no feed is in progress, and every harvest's raw-timer feed has lane 1
\* or 3 as its direct target and its timer-XOR-workload feed lane 2 or 0:
\* (1,2) from a counter that is 0 mod 4 and (3,0) from one that is 2 mod 4,
\* so the pairs alternate from one harvest to the next
FeedParity ==
    [][ /\ mode' # "raw" => rng'.pool.mix_counter[1] % 2 = 0
        /\ feeds' = feeds + 2 =>
             \E t \in {U64(now')} : \E u \in {WXor(t, sink')} :
             \E a \in {FedBy(rng.pool, t)} : \E b \in {FedBy(a, u)} :
             \E pair \in {LanePair(rng.pool.mix_counter)} :
                /\ mode # "raw"
                /\ FeedsLane(rng.pool, a, t, pair[1])
                /\ FeedsLane(a, b, u, pair[2])
                /\ pair[1] \in {1, 3} /\ pair[2] \in {2, 0}
                /\ b.mix_counter = rng'.pool.mix_counter
                /\ LanePair(b.mix_counter) # pair
                /\ b.pool = (IF ev' = "extract" THEN pre' ELSE rng'.pool.pool)
      ]_vars

\* two consecutive harvests have run since an initialization, the second
\* from a counter that is 2 mod 4
HarvestedOnThreeAndZero ==
    /\ mode # "raw" /\ ev = "harvest" /\ feeds >= 4
    /\ rng.pool.mix_counter[1] % 4 = 0

=============================================================================
